---- MODULE Spec2Model ----
(***************************************************************************)
(* Model of the Slack integration: the three event hooks                   *)
(* (hooks/notification-slack.py, hooks/posttooluse-slack.py,               *)
(* hooks/stop-slack.py), the slash-command handlers (commands/slack/*.py)  *)
(* and the files they share: slack-config.json, settings.json and the      *)
(* per-session aggregation state file.                                     *)
(*                                                                         *)
(* A JSON object (a Python dict) is a TLA+ function whose domain is the    *)
(* set of keys present.  A Python list is a sequence.                      *)
(***************************************************************************)
EXTENDS Integers, Sequences, FiniteSets, TLC

\* ------------------------------------------------------------------ bounds
MaxRuns == 2        \* hook invocations in one behaviour
MaxCmds == 2        \* slash commands in one behaviour
MaxLines == 3                   \* lines of a transcript

\* ------------------------------------------------------- program constants
max_retries == 3                \* send_webhook: attempts per call
DefaultAggregateTimeout == 5    \* tool_filters.aggregate_timeout default
DefaultMaxNotifications == 10   \* tool_filters.max_notifications_per_session default
KeepTools == 10                 \* update_aggregation_state keeps the last 10 tools
CleanupAge == 3600              \* cleanup_old_aggregation_files: one hour

\* --------------------------------------------------------- dict operations
EmptyDict == [k \in {} |-> k]
PyNone == EmptyDict                  \* None and {} are both falsy; the hooks only test "not config"
Falsy(d) == DOMAIN d = {}      \* "not d" for a dict or None
Has(d, k) == k \in DOMAIN d
Get(d, k, default) == IF k \in DOMAIN d THEN d[k] ELSE default
Put(d, k, v) == [x \in (DOMAIN d) \cup {k} |-> IF x = k THEN v ELSE d[x]]
Del(d, k) == [x \in (DOMAIN d) \ {k} |-> d[x]]
Update(d, e) == [x \in (DOMAIN d) \cup (DOMAIN e) |-> IF x \in DOMAIN e THEN e[x] ELSE d[x]]
InList(x, list) == \E i \in 1..Len(list) : list[i] = x

\* -------------------------------------------------------------------- URLs
\* A URL string is kept in its parts: "<scheme>://<host>/<kind>/<seg>/.../<seg><tail>".
\* Every segment is a sequence of one-character strings; tail is whatever
\* follows the last segment: a query string, a fragment, a newline ("" when
\* there is nothing).  The empty string is EmptyUrl.
Upper == {"A","B","C","D","E","F","G","H","I","J","K","L","M",
          "N","O","P","Q","R","S","T","U","V","W","X","Y","Z"}
Lower == {"a","b","c","d","e","f","g","h","i","j","k","l","m",
          "n","o","p","q","r","s","t","u","v","w","x","y","z"}
Digit == {"0","1","2","3","4","5","6","7","8","9"}

\* "..." : what stands for the part that was cut or hidden
Dots == <<".", ".", ".">>

EmptyUrl == [scheme |-> "", host |-> "", kind |-> "", segs |-> <<>>, tail |-> ""]
ServicesUrl == [scheme |-> "https", host |-> "hooks.slack.com", kind |-> "services",
                segs |-> << <<"T","0">>, <<"B","0">>, <<"x","Y","1">> >>, tail |-> ""]
WorkflowsUrl == [scheme |-> "https", host |-> "hooks.slack.com", kind |-> "workflows",
                 segs |-> << <<"T","1">>, <<"A","1">>, <<"9">>, <<"z">> >>, tail |-> ""]
\* http://hooks.slack.com/services/T0/B0/xY1 : wrong protocol
HttpUrl == [scheme |-> "http", host |-> "hooks.slack.com", kind |-> "services",
            segs |-> << <<"T","0">>, <<"B","0">>, <<"x","Y","1">> >>, tail |-> ""]
\* https://example.com/services/T0/B0/xY1 : wrong domain
OtherHostUrl == [scheme |-> "https", host |-> "example.com", kind |-> "services",
                 segs |-> << <<"T","0">>, <<"B","0">>, <<"x","Y","1">> >>, tail |-> ""]

\* [A-Z0-9]+ and [a-zA-Z0-9]+
UpperAlnumPlus(s) == Len(s) >= 1 /\ \A i \in 1..Len(s) : s[i] \in Upper \cup Digit
AlnumPlus(s) == Len(s) >= 1 /\ \A i \in 1..Len(s) : s[i] \in Upper \cup Lower \cup Digit
\* T[A-Z0-9]+ , B[A-Z0-9]+ , A[A-Z0-9]+
Prefixed(c, s) == Len(s) >= 2 /\ s[1] = c /\ UpperAlnumPlus(Tail(s))

\* re.match of '^https://hooks\.slack\.com/services/T[A-Z0-9]+/B[A-Z0-9]+/[a-zA-Z0-9]+$'
\* or of the workflows pattern: in Python "$" matches at the end of the string
\* and also just before one newline that ends it.
is_valid_webhook_url(url) ==
    /\ url # EmptyUrl
    /\ url.scheme = "https"
    /\ url.host = "hooks.slack.com"
    /\ url.tail \in {"", "\n"}
    /\ \/ /\ url.kind = "services"
          /\ Len(url.segs) = 3
          /\ Prefixed("T", url.segs[1]) /\ Prefixed("B", url.segs[2])
          /\ AlnumPlus(url.segs[3])
       \/ /\ url.kind = "workflows"
          /\ Len(url.segs) = 4
          /\ Prefixed("T", url.segs[1]) /\ Prefixed("A", url.segs[2])
          /\ AlnumPlus(url.segs[3]) /\ AlnumPlus(url.segs[4])

\* slack_utils.validate_webhook_url: True, or raises ValueError
validate_webhook_url(url) == IF is_valid_webhook_url(url) THEN "true" ELSE "raise"

\* The hooks' own validate_webhook_url, used when slack_utils cannot be imported:
\*   "hooks.slack.com" in url if url else False
\* Of the parts of a modelled URL only the host can hold that text.
fallback_validate_webhook_url(url) ==
    IF url # EmptyUrl /\ url.host = "hooks.slack.com" THEN "true" ELSE "false"

\* ------------------------------------------------------------------ state
VARIABLES
    \* files
    config_kind,        \* slack-config.json: "absent", "json" or "corrupt" (not JSON)
    config_data,        \* its content when config_kind = "json"
    settings_kind,      \* settings.json: "absent", "json" or "corrupt"
    settings_data,      \* its content when settings_kind = "json"
    backups,            \* timestamps of the <config>.backup.<timestamp> files
    agg_state,          \* session id -> the claude-slack-aggregation-<id>.json file
    upd,                \* the update_aggregation_state calls in flight: where each stands, what it loaded
    \* environment
    now,                \* the clock, in seconds
    utils_importable,   \* whether "from commands.slack.slack_utils import ..." succeeds in the hooks
    \* the hook process in flight
    pc,                 \* "idle", a step of Pipeline(hook), "sleep" or "done"
    hook,               \* "Notification", "PostToolUse" or "Stop"
    input,              \* what the hook reads from stdin
    config,             \* main's local config (PyNone before load_config)
    description,        \* PostToolUse: the generated tool description
    message,            \* the kind of message built: "none", "notification", "individual", ...
    attempt,            \* send_webhook's loop variable
    result,             \* send_webhook's result: "none", "success", "failure"
    exit_code,          \* the process exit code, NoExit while running
    \* observation (history) variables
    trace,              \* the steps the run in flight has passed, in order
    posts,              \* POST attempts made by the run in flight
    post_url,           \* the URL they went to
    sleeps,             \* the time.sleep durations of the run in flight, in order
    outcome,            \* why the run in flight ended
    prev_notification,  \* PostToolUse: the session's last_notification before this run's update
    sent,               \* session id -> notifications PostToolUse has delivered
    stopped,            \* `stop` succeeded and no `start` or `setup` has since
    configured,         \* `setup` succeeded and no `stop` or `remove` has since
    last_cmd,           \* the last slash command run and its exit code
    call,               \* the last command or settings call: its arguments, how it ended, the files before it
    runs,               \* hook invocations so far
    cmds                \* slash commands so far

fileVars == <<config_kind, config_data, settings_kind, settings_data, backups>>
procVars == <<pc, hook, input, config, description, message, attempt, result, exit_code>>
obsVars == <<trace, posts, post_url, sleeps, outcome, prev_notification>>
cmdVars == <<stopped, configured, last_cmd, call, cmds>>
vars == <<fileVars, agg_state, now, utils_importable, upd, procVars, obsVars, sent, cmdVars, runs>>

NoExit == 0 - 1      \* the process has not exited
NoPrevious == [known |-> FALSE, at |-> 0]
Sessions == {"s1", "s2"}
Hooks == {"Notification", "PostToolUse", "Stop"}

\* ------------------------------------------------------------ hook inputs
\* What a hook reads from stdin.  json is "malformed" (json.loads raises
\* JSONDecodeError), "nonobject" (valid JSON that is not an object, so .get
\* raises AttributeError) or "object"; a missing field reads as its default.
Event(name, sid, msg, tool, active) ==
    [json |-> "object", hook_event_name |-> name, session_id |-> sid,
     message |-> msg, tool_name |-> tool, stop_hook_active |-> active]
NoInput == [json |-> "malformed", hook_event_name |-> "", session_id |-> "",
            message |-> "", tool_name |-> "", stop_hook_active |-> FALSE]
BadJson == {NoInput, [NoInput EXCEPT !.json = "nonobject"]}
Tools == {"Write", "Read", "Grep"}
Inputs(h) ==
    CASE h = "Notification" ->
            BadJson \cup { Event("Notification", "s1", "needs permission", "", FALSE),
                           Event("Notification", "", "needs permission", "", FALSE),
                           Event("Notification", "s1", "", "", FALSE),
                           Event("Stop", "s1", "needs permission", "", FALSE) }
      [] h = "PostToolUse" ->
            BadJson \cup { Event("PostToolUse", "s1", "", tool, FALSE) : tool \in Tools }
                    \cup { Event("PostToolUse", "s2", "", "Write", FALSE), Event("PostToolUse", "", "", "Write", FALSE),
                           Event("PostToolUse", "s1", "", "", FALSE),
                           Event("Notification", "s1", "", "Write", FALSE) }
      [] h = "Stop" ->
            BadJson \cup { Event("Stop", "s1", "", "", active) : active \in BOOLEAN }
                    \cup { Event("Stop", "", "", "", FALSE),
                           Event("PostToolUse", "s1", "", "", FALSE) }

\* The required-field checks of the three main functions.
RequiredFieldsPresent(h, inp) ==
    /\ inp.session_id # ""
    /\ h = "Notification" => inp.message # ""
    /\ h = "PostToolUse" => inp.tool_name # ""
    /\ inp.hook_event_name = h

\* ------------------------------------------------------- the hooks' steps
\* The order in which each main runs its steps; "send" is send_webhook.
PipelineStopGateLast(h) ==
    CASE h = "Notification" -> <<"parse", "load_config", "validate_url", "build", "send", "exit">>
      [] h = "PostToolUse" -> <<"parse", "load_config", "filter", "validate_url",
                                "update_state", "build", "send", "exit">>
      [] h = "Stop" -> <<"parse", "load_config", "validate_url", "build", "send", "gate", "exit">>
Pipeline(h) ==
    CASE h = "Notification" -> <<"parse", "load_config", "validate_url", "build", "send", "exit">>
      [] h = "PostToolUse" -> <<"parse", "load_config", "filter", "validate_url",
                                "update_state", "build", "send", "exit">>
      [] h = "Stop" -> <<"parse", "gate", "load_config", "validate_url", "build", "send", "exit">>
NextStep(h, step) ==
    LET p == Pipeline(h)
        i == CHOOSE j \in 1..Len(p) : p[j] = step
    IN  p[i + 1]

\* sys.exit(code), after passing the steps in labels: the run ends
ExitWith(code, why, labels) ==
    /\ pc' = "done"
    /\ exit_code' = code
    /\ outcome' = why
    /\ trace' = trace \o labels

\* the steps in labels are passed: main goes on to its next step
Pass(labels) ==
    /\ pc' = NextStep(hook, pc)
    /\ trace' = trace \o labels
    /\ UNCHANGED <<exit_code, outcome>>

\* --------------------------------------------- what the hooks' steps compute
\* load_config of the three hooks (the same text in each): None unless the
\* file exists, parses, and has a truthy "enabled" and a truthy "webhook_url".
load_config(kind, data) ==
    IF kind = "absent" THEN PyNone
    ELSE IF kind = "corrupt" THEN PyNone
    ELSE IF ~Get(data, "enabled", FALSE) THEN PyNone
    ELSE IF Get(data, "webhook_url", EmptyUrl) = EmptyUrl THEN PyNone
    ELSE data

\* validate_webhook_url as the hook sees it: slack_utils' when the import
\* succeeded, the hook's own fallback otherwise.
hook_validate_webhook_url(importable, url) ==
    IF importable THEN validate_webhook_url(url) ELSE fallback_validate_webhook_url(url)

default_tools == <<"Write", "Edit", "MultiEdit", "Bash">>

should_notify_any_when_listed(tool_name, cfg) ==
    LET tool_filters == Get(cfg, "tool_filters", EmptyDict)
        notify_on == Get(tool_filters, "notify_on", <<>>)
    IN  IF notify_on = <<>> THEN InList(tool_name, default_tools)
        ELSE TRUE
should_notify_for_tool(tool_name, cfg) ==
    LET tool_filters == Get(cfg, "tool_filters", EmptyDict)
        notify_on == Get(tool_filters, "notify_on", <<>>)
    IN  IF notify_on = <<>> THEN InList(tool_name, default_tools)
        ELSE InList(tool_name, notify_on)

\* Stop hook: "if stop_hook_active:"
stop_hook_ignores_active(inp) == FALSE
stop_hook_skips(inp) == inp.stop_hook_active

\* the exit code main derives from send_webhook's result
send_exit_code_blocking(res) == IF res = "success" THEN 0 ELSE 2
send_exit_code(res) == IF res = "success" THEN 0 ELSE 1

\* generate_tool_description, for a tool_response that reports success
generate_tool_description(tool_name) ==
    CASE tool_name = "Write" -> "Created file"
      [] tool_name = "Bash" -> "Executed: command"
      [] tool_name = "Read" -> "Read file"
      [] tool_name \in {"Grep", "Glob"} -> "Searched for: pattern"
      [] OTHER -> "Used tool"

\* The aggregation state file of a session.
NoStateFile == [exists |-> FALSE, tools |-> <<>>, last_notification |-> 0, notification_count |-> 0]
LastN(list, n) == IF Len(list) <= n THEN list ELSE SubSeq(list, Len(list) - n + 1, Len(list))

\* cleanup_old_aggregation_files: a state file last written more than an hour ago is deleted
cleanup_old_aggregation_files(files, t) ==
    [sid \in DOMAIN files |->
        IF files[sid].exists /\ files[sid].last_notification < t - CleanupAge
        THEN NoStateFile ELSE files[sid]]

\* update_aggregation_state: the file's content after the call at time t
update_aggregation_state(file, tool_name, desc, t) ==
    LET state == IF file.exists THEN file
                 ELSE [exists |-> TRUE, tools |-> <<>>, last_notification |-> t,
                       notification_count |-> 0]
        tools == Append(state.tools, [tool_name |-> tool_name, description |-> desc, timestamp |-> t])
    IN  [exists |-> TRUE,
         tools |-> LastN(tools, KeepTools),
         last_notification |-> t,
         notification_count |-> state.notification_count + 1]

\* create_aggregated_message: the tools of the state file with the current
\* tool put after them; of the last 5, a dict tool_name -> description (a key
\* keeps the place of its first record and the description of its last);
\* "Tools Used: <len(tools)> operations" when there is more than one
RecentTools == 5
RECURSIVE tool_summary(_)
tool_summary(list) ==
    IF list = <<>> THEN <<>>
    ELSE LET front == tool_summary(SubSeq(list, 1, Len(list) - 1))
             tool == list[Len(list)]
         IN  IF \E k \in 1..Len(front) : front[k].tool_name = tool.tool_name
             THEN [k \in 1..Len(front) |->
                      IF front[k].tool_name = tool.tool_name
                      THEN [front[k] EXCEPT !.description = tool.description]
                      ELSE front[k]]
             ELSE Append(front, [tool_name |-> tool.tool_name, description |-> tool.description])
create_aggregated_message(file, current_tool, current_description, t) ==
    LET current == [tool_name |-> current_tool, description |-> current_description,
                    timestamp |-> t]
        tools == IF file.exists THEN Append(file.tools, current) ELSE <<current>>
        summary == tool_summary(LastN(tools, RecentTools))
    IN  [activity_list |-> [k \in 1..Len(summary) |-> summary[k].description],
         tools_used |-> Len(tools),
         shows_tools_used |-> Len(tools) > 1]
\* should_aggregate_notification, read at time t
should_aggregate_notification(file, cfg, t) ==
    LET tool_filters == Get(cfg, "tool_filters", EmptyDict)
        aggregate_timeout == Get(tool_filters, "aggregate_timeout", DefaultAggregateTimeout)
    IN  IF aggregate_timeout <= 0 THEN FALSE
        ELSE file.exists /\ t - file.last_notification < aggregate_timeout

RECURSIVE Pow2(_)
Pow2(n) == IF n = 0 THEN 1 ELSE 2 * Pow2(n - 1)
\* time.sleep(2 ** attempt)
backoff_from_two(n) == Pow2(n + 1)
backoff_constant(n) == 1
backoff(n) == Pow2(n)

\* --------------------------------------------------------- the hook process
\* the host CLI starts one of the hooks, d seconds after the last thing that
\* happened, and pipes an event into it
HookStart(h, inp, d) ==
    /\ pc = "idle"
    /\ runs < MaxRuns
    /\ runs' = runs + 1
    /\ now' = now + d
    /\ hook' = h
    /\ input' = inp
    /\ pc' = Pipeline(h)[1]
    /\ config' = PyNone
    /\ description' = ""
    /\ message' = "none"
    /\ attempt' = 0
    /\ result' = "none"
    /\ exit_code' = NoExit
    /\ trace' = <<>>
    /\ posts' = 0
    /\ post_url' = EmptyUrl
    /\ sleeps' = <<>>
    /\ outcome' = "running"
    /\ prev_notification' = NoPrevious
    /\ UNCHANGED <<fileVars, agg_state, utils_importable, upd, sent, cmdVars>>

\* json.loads(sys.stdin.read()) and the required-field checks; in the
\* PostToolUse hook cleanup_old_aggregation_files() runs first.
ParseInput ==
    /\ pc = "parse"
    /\ agg_state' = IF hook = "PostToolUse"
                    THEN cleanup_old_aggregation_files(agg_state, now) ELSE agg_state
    /\ IF input.json # "object"
       THEN ExitWith(1, "malformed_input", <<>>)
       ELSE IF ~RequiredFieldsPresent(hook, input)
            THEN ExitWith(1, "malformed_input", <<"parsed">>)
            ELSE Pass(<<"parsed", "validated">>)
    /\ UNCHANGED <<fileVars, now, utils_importable, upd, hook, input, config, description,
                   message, attempt, result, posts, post_url, sleeps, prev_notification, sent, cmdVars, runs>>

\* Stop hook: skip if the stop hook is already active
StopGate ==
    /\ pc = "gate"
    /\ IF stop_hook_skips(input)
       THEN ExitWith(0, "suppressed", <<>>)
       ELSE Pass(<<"gate">>)
    /\ UNCHANGED <<fileVars, agg_state, now, utils_importable, upd, hook, input, config, description,
                   message, attempt, result, posts, post_url, sleeps, prev_notification, sent, cmdVars, runs>>

\* config = load_config(); if not config: exit 0.  The Notification and
\* PostToolUse hooks then test config.get("enabled") once more.
LoadConfig ==
    /\ pc = "load_config"
    /\ config' = load_config(config_kind, config_data)
    /\ IF Falsy(config')
       THEN ExitWith(0, "not_configured", <<>>)
       ELSE IF hook # "Stop" /\ ~Get(config', "enabled", FALSE)
            THEN ExitWith(0, "disabled", <<>>)
            ELSE Pass(<<"config">>)
    /\ UNCHANGED <<fileVars, agg_state, now, utils_importable, upd, hook, input, description,
                   message, attempt, result, posts, post_url, sleeps, prev_notification, sent, cmdVars, runs>>

\* PostToolUse hook: the tool allow-list
ToolFilter ==
    /\ pc = "filter"
    /\ IF should_notify_for_tool(input.tool_name, config)
       THEN Pass(<<"gate">>)
       ELSE ExitWith(0, "suppressed", <<>>)
    /\ UNCHANGED <<fileVars, agg_state, now, utils_importable, upd, hook, input, config, description,
                   message, attempt, result, posts, post_url, sleeps, prev_notification, sent, cmdVars, runs>>

\* if not validate_webhook_url(webhook_url): exit 1.  slack_utils' validator
\* raises ValueError instead, which main's "except Exception" turns into exit 1.
ValidateUrl ==
    /\ pc = "validate_url"
    /\ IF hook_validate_webhook_url(utils_importable, Get(config, "webhook_url", EmptyUrl)) = "true"
       THEN Pass(<<"url">>)
       ELSE ExitWith(1, "invalid_url", <<>>)
    /\ UNCHANGED <<fileVars, agg_state, now, utils_importable, upd, hook, input, config, description,
                   message, attempt, result, posts, post_url, sleeps, prev_notification, sent, cmdVars, runs>>

\* PostToolUse hook: generate the description, then update_aggregation_state
UpdateState ==
    /\ pc = "update_state"
    /\ description' = generate_tool_description(input.tool_name)
    /\ agg_state' = [agg_state EXCEPT ![input.session_id] =
                        update_aggregation_state(@, input.tool_name, description', now)]
    /\ prev_notification' = [known |-> agg_state[input.session_id].exists,
                              at |-> agg_state[input.session_id].last_notification]
    /\ Pass(<<"state">>)
    /\ UNCHANGED <<fileVars, now, utils_importable, upd, hook, input, config,
                   message, attempt, result, posts, post_url, sleeps, sent, cmdVars, runs>>

\* the message is built: the Notification hook classifies the text first, the
\* PostToolUse hook chooses between an aggregated and an individual message,
\* the Stop hook summarises the transcript
BuildMessage ==
    /\ pc = "build"
    /\ message' = CASE hook = "Notification" -> "notification"
                    [] hook = "PostToolUse" ->
                         IF should_aggregate_notification(agg_state[input.session_id], config, now)
                         THEN "aggregated" ELSE "individual"
                    [] hook = "Stop" -> "session_complete"
    /\ Pass(IF hook = "Notification" THEN <<"gate", "built">> ELSE <<"built">>)
    /\ UNCHANGED <<fileVars, agg_state, now, utils_importable, upd, hook, input, config, description,
                   attempt, result, posts, post_url, sleeps, prev_notification, sent, cmdVars, runs>>

\* send_webhook, one pass of "for attempt in range(max_retries)": urlopen
\* returns ("ok"), raises HTTPError ("http_error") or raises anything else
\* ("error": URLError, a timeout).  urllib.request.Request raises ValueError
\* for a URL without a scheme, and send_webhook returns a failure without a POST.
SendOutcomes == {"ok", "http_error", "error"}
SendAttempt(http) ==
    /\ pc = "send"
    /\ LET webhook_url == Get(config, "webhook_url", EmptyUrl) IN
       IF webhook_url.scheme = ""
       THEN /\ result' = "failure"
            /\ pc' = NextStep(hook, "send")
            /\ UNCHANGED <<posts, post_url, sent, trace>>
       ELSE /\ posts' = posts + 1
            /\ post_url' = webhook_url
            /\ trace' = Append(trace, "post")
            /\ IF http = "ok"
               THEN /\ result' = "success"
                    /\ pc' = NextStep(hook, "send")
                    /\ sent' = IF hook = "PostToolUse"
                               THEN [sent EXCEPT ![input.session_id] = @ + 1] ELSE sent
               ELSE /\ sent' = sent
                    /\ IF attempt = max_retries - 1
                       THEN result' = "failure" /\ pc' = NextStep(hook, "send")
                       ELSE result' = result /\ pc' = "sleep"
    /\ UNCHANGED <<fileVars, agg_state, now, utils_importable, upd, hook, input, config, description,
                   message, attempt, exit_code, sleeps, outcome, prev_notification, cmdVars, runs>>

\* send_webhook, one pass of the loop in which urlopen(req, timeout=10) gets no
\* answer: it raises after 10 seconds
UrlopenTimeout == 10
SendTimeout ==
    /\ pc = "send"
    /\ Get(config, "webhook_url", EmptyUrl).scheme # ""
    /\ posts' = posts + 1
    /\ post_url' = Get(config, "webhook_url", EmptyUrl)
    /\ trace' = Append(Append(trace, "post"), "timeout")
    /\ now' = now + UrlopenTimeout
    /\ IF attempt = max_retries - 1
       THEN result' = "failure" /\ pc' = NextStep(hook, "send")
       ELSE result' = result /\ pc' = "sleep"
    /\ UNCHANGED <<fileVars, agg_state, utils_importable, upd, hook, input, config, description,
                   message, attempt, exit_code, sleeps, outcome, prev_notification, sent,
                   cmdVars, runs>>
\* time.sleep(2 ** attempt), then the next pass of the loop
Backoff ==
    /\ pc = "sleep"
    /\ sleeps' = Append(sleeps, backoff(attempt))
    /\ now' = now + backoff(attempt)
    /\ attempt' = attempt + 1
    /\ pc' = "send"
    /\ UNCHANGED <<fileVars, agg_state, utils_importable, upd, hook, input, config, description,
                   message, result, exit_code, trace, posts, post_url, outcome, prev_notification,
                   sent, cmdVars, runs>>

\* main's last step: exit 0 if result["success"], exit 1 otherwise
ReportResult ==
    /\ pc = "exit"
    /\ ExitWith(send_exit_code(result), IF result = "success" THEN "sent" ELSE "send_failed", <<>>)
    /\ UNCHANGED <<fileVars, agg_state, now, utils_importable, upd, hook, input, config, description,
                   message, attempt, result, posts, post_url, sleeps, prev_notification, sent, cmdVars, runs>>

\* the process is gone
HookExit ==
    /\ pc = "done"
    /\ pc' = "idle"
    /\ config' = PyNone
    /\ input' = NoInput
    /\ description' = ""
    /\ message' = "none"
    /\ attempt' = 0
    /\ result' = "none"
    /\ exit_code' = NoExit
    /\ trace' = <<>>
    /\ posts' = 0
    /\ post_url' = EmptyUrl
    /\ sleeps' = <<>>
    /\ outcome' = "running"
    /\ prev_notification' = NoPrevious
    /\ hook' = "none"
    /\ UNCHANGED <<fileVars, agg_state, now, utils_importable, upd, sent, cmdVars, runs>>

\* ------------------------------- update_aggregation_state, calls that overlap
\* Two PostToolUse processes may be inside update_aggregation_state at once.
\* Each loads the state file with no lock held, appends its record in memory,
\* opens the file for writing (which empties it), takes the lock, dumps,
\* releases the lock.  A file that is empty or holds bytes of two dumps is not
\* JSON: a load then starts from the default state.
Workers == {1, 2}
NoWorker == [pc |-> "idle", sid |-> "s1", tool_name |-> "Write", state |-> NoStateFile,
             stale |-> FALSE]
NoUpd == [w |-> [i \in Workers |-> NoWorker],
          lock |-> [sid \in Sessions |-> 0],
          unreadable |-> {},
          last |-> [sid \in Sessions |-> 0],
          dumps |-> [sid \in Sessions |-> 0]]

\* with open(state_file, 'w') as f: ... json.dump(state, f): what the file
\* holds afterwards, whatever it held before
save_state_merging(file, state) ==
    [state EXCEPT !.notification_count = file.notification_count + 1]
save_state(file, state) == state

UpdFrame == UNCHANGED <<fileVars, now, utils_importable, procVars, obsVars, sent, cmdVars>>

\* the call begins: update_aggregation_state(session_id, tool_name, description)
UpdBegin(i, sid, tool_name) ==
    /\ pc = "idle"
    /\ upd.w[i].pc \in {"idle", "done"}
    /\ runs < MaxRuns
    /\ runs' = runs + 1
    /\ upd' = [upd EXCEPT !.w[i] = [pc |-> "load", sid |-> sid, tool_name |-> tool_name,
                                     state |-> NoStateFile, stale |-> FALSE]]
    /\ UNCHANGED agg_state
    /\ UpdFrame

\* "Load existing state", then the append, the cut to the last 10 and the
\* count, all on the local dict
UpdLoad(i) ==
    /\ upd.w[i].pc = "load"
    /\ LET me == upd.w[i]
           file == IF me.sid \in upd.unreadable THEN NoStateFile ELSE agg_state[me.sid]
       IN  upd' = [upd EXCEPT !.w[i].pc = "open",
                              !.w[i].state = update_aggregation_state(
                                   file, me.tool_name, generate_tool_description(me.tool_name), now)]
    /\ UNCHANGED <<agg_state, runs>>
    /\ UpdFrame

\* open(state_file, 'w'): the file is there and empty
UpdOpen(i) ==
    /\ upd.w[i].pc = "open"
    /\ LET sid == upd.w[i].sid
       IN  /\ agg_state' = [agg_state EXCEPT ![sid] = [NoStateFile EXCEPT !.exists = TRUE]]
           /\ upd' = [upd EXCEPT !.w[i].pc = "flock",
                                 !.unreadable = @ \cup {sid}]
    /\ UNCHANGED runs
    /\ UpdFrame

\* fcntl.flock(f.fileno(), fcntl.LOCK_EX): waits while another process holds
\* the lock; when flock raises, the file is opened again and written unlocked
UpdFlock(i, lock_ok) ==
    /\ upd.w[i].pc = "flock"
    /\ LET sid == upd.w[i].sid
       IN  IF lock_ok
           THEN /\ upd.lock[sid] = 0
                /\ upd' = [upd EXCEPT !.w[i].pc = "dump", !.lock[sid] = i]
           ELSE upd' = [upd EXCEPT !.w[i].pc = "dump"]
    /\ UNCHANGED <<agg_state, runs>>
    /\ UpdFrame

\* json.dump(state, f).  The bytes go to the start of the file: when another
\* process has dumped since this one opened the file, what is left is this
\* dump alone (clean) or this dump followed by the end of the other one.
UpdDump(i, clean) ==
    /\ upd.w[i].pc = "dump"
    /\ clean \/ upd.w[i].stale
    /\ LET me == upd.w[i]
           sid == me.sid
           others == { j \in Workers \ {i} :
                          upd.w[j].sid = sid /\ upd.w[j].pc \in {"flock", "dump"} }
       IN  /\ agg_state' = [agg_state EXCEPT ![sid] = save_state(@, me.state)]
           /\ upd' = [upd EXCEPT
                  !.w = [j \in Workers |->
                           IF j = i THEN [me EXCEPT !.pc = IF upd.lock[sid] = i
                                                            THEN "unlock" ELSE "done"]
                           ELSE IF j \in others THEN [upd.w[j] EXCEPT !.stale = TRUE]
                           ELSE upd.w[j]],
                  !.unreadable = IF clean THEN @ \ {sid} ELSE @ \cup {sid},
                  !.last[sid] = i,
                  !.dumps[sid] = @ + 1]
    /\ UNCHANGED runs
    /\ UpdFrame

\* fcntl.flock(f.fileno(), fcntl.LOCK_UN)
UpdUnlock(i) ==
    /\ upd.w[i].pc = "unlock"
    /\ upd' = [upd EXCEPT !.w[i].pc = "done", !.lock[upd.w[i].sid] = 0]
    /\ UNCHANGED <<agg_state, runs>>
    /\ UpdFrame
\* ------------------------------------------------- truncate_message_content
\* A string is a sequence of one-character strings.  content[:max_length - 3]
\* is, for a negative bound, all but the last 3 - max_length characters;
\* rfind gives the 0-based index of the last space, -1 when there is none;
\* "last_space > max_length * 0.8" is 5 * last_space > 4 * max_length.
PySliceTo(s, k) ==
    IF k >= 0 THEN SubSeq(s, 1, IF k < Len(s) THEN k ELSE Len(s))
    ELSE SubSeq(s, 1, IF Len(s) + k > 0 THEN Len(s) + k ELSE 0)
rfind_space(s) ==
    LET at == { i \in 1..Len(s) : s[i] = " " }
    IN  IF at = {} THEN 0 - 1 ELSE (CHOOSE i \in at : \A j \in at : j <= i) - 1
truncate_message_content(content, max_length) ==
    IF Len(content) <= max_length THEN content
    ELSE LET truncated == PySliceTo(content, max_length - 3)
             last_space == rfind_space(truncated)
         IN  (IF 5 * last_space > 4 * max_length
              THEN PySliceTo(truncated, last_space) ELSE truncated) \o Dots
\* ------------------------------------------ the Stop hook's transcript summary
\* A line of the transcript: text that is not JSON ("malformed"), a JSON
\* object with a type and the names of the tool_use items of its message
\* content ("object"), or JSON that is not an object ("other": a list, a
\* number, null).
AssistantLine(names) == [json |-> "object", type |-> "assistant", tools |-> names]
UserLine == [json |-> "object", type |-> "user", tools |-> <<>>]
MalformedLine == [json |-> "malformed", type |-> "", tools |-> <<>>]
NotObjectLine == [json |-> "other", type |-> "", tools |-> <<>>]

\* the loop "for line in f": json.loads raising JSONDecodeError skips the
\* line; entry.get raising AttributeError on JSON that is not an object is
\* caught outside the loop, which ends there with what was counted so far
RECURSIVE tools_used_of(_)
tools_used_of(lines) ==
    IF lines = <<>> THEN <<>>
    ELSE LET line == Head(lines)
         IN  IF line.json = "malformed" THEN tools_used_of(Tail(lines))
             ELSE IF line.json = "other" THEN <<>>
             ELSE IF line.type = "assistant" THEN line.tools \o tools_used_of(Tail(lines))
             ELSE tools_used_of(Tail(lines))

activity_of(tools_used) ==
    IF Len(tools_used) >= 5 THEN "Active session with significant work"
    ELSE IF Len(tools_used) >= 2 THEN "Session completed with activity"
    ELSE IF Len(tools_used) >= 1 THEN "Brief session"
    ELSE "Empty session - no activity recorded"

\* parse_transcript_for_summary of a transcript that exists
parse_transcript_for_summary(lines) ==
    LET tools_used == tools_used_of(lines)
    IN  [tools_used |-> Len(tools_used), activity |-> activity_of(tools_used)]
\* ------------------------------------------------- config and settings files
\* load_configuration: {} when the file is missing; raises ConfigurationError
\* when it is not JSON
load_configuration(kind, data) ==
    IF kind = "json" THEN [raised |-> FALSE, value |-> data]
    ELSE IF kind = "absent" THEN [raised |-> FALSE, value |-> EmptyDict]
    ELSE [raised |-> TRUE, value |-> EmptyDict]

\* load_settings_json: the same for settings.json
load_settings_json(kind, data) ==
    IF kind = "json" THEN [raised |-> FALSE, value |-> data]
    ELSE IF kind = "absent" THEN [raised |-> FALSE, value |-> EmptyDict]
    ELSE [raised |-> TRUE, value |-> EmptyDict]

\* An entry of a hooks list is a bare string (kind "str") or an object with
\* a "command" key (kind "obj").
StrEntry(text) == [kind |-> "str", command |-> text]
ObjEntry(text) == [kind |-> "obj", command |-> text]
SlackHooks == <<"notification-slack.py", "posttooluse-slack.py", "stop-slack.py">>
hook_types == [f \in {"notification-slack.py", "posttooluse-slack.py", "stop-slack.py"} |->
                 CASE f = "notification-slack.py" -> "notification"
                   [] f = "posttooluse-slack.py" -> "posttooluse"
                   [] f = "stop-slack.py" -> "stop"]

\* "hook_file in list": a string equals a bare-string entry only
FileInEntries(hook_file, list) ==
    \E i \in 1..Len(list) : list[i].kind = "str" /\ list[i].command = hook_file

\* the loop body of register_hook_in_settings, on the "hooks" dict
RegisterOneAlwaysAppends(hooks, hook_file) ==
    IF hook_file \notin DOMAIN hook_types THEN hooks
    ELSE LET hook_type == hook_types[hook_file]
             list == Get(hooks, hook_type, <<>>)
         IN  Put(hooks, hook_type, Append(list, StrEntry(hook_file)))
RegisterOne(hooks, hook_file) ==
    IF hook_file \notin DOMAIN hook_types THEN hooks
    ELSE LET hook_type == hook_types[hook_file]
             list == Get(hooks, hook_type, <<>>)
         IN  Put(hooks, hook_type,
                 IF FileInEntries(hook_file, list) THEN list
                 ELSE Append(list, StrEntry(hook_file)))

RECURSIVE RegisterAll(_, _)
RegisterAll(hooks, files) ==
    IF files = <<>> THEN hooks
    ELSE RegisterAll(RegisterOne(hooks, Head(files)), Tail(files))

\* register_hook_in_settings: the settings dict it saves
register_hook_in_settings(hooks_to_register, settings) ==
    Put(settings, "hooks", RegisterAll(Get(settings, "hooks", EmptyDict), hooks_to_register))

\* unregister_hooks_from_settings: the filtered settings and whether an entry went
FilterEntries(list, hooks_to_remove) ==
    SelectSeq(list, LAMBDA e : ~(e.kind = "str" /\ InList(e.command, hooks_to_remove)))
unregister_hooks_from_settings(hooks_to_remove, settings) ==
    IF ~Has(settings, "hooks") THEN [hooks_removed |-> FALSE, settings |-> settings]
    ELSE LET old == settings["hooks"]
             new == [t \in DOMAIN old |-> FilterEntries(old[t], hooks_to_remove)]
         IN  [hooks_removed |-> \E t \in DOMAIN old : Len(new[t]) < Len(old[t]),
              settings |-> Put(settings, "hooks", new)]

\* ------------------------------------------------------- the slash commands
\* ARGUMENTS, split on whitespace: each word is kept as the URL it spells
\* (EmptyUrl for a word that is no URL at all) and its text.
UrlWord(url) == [url |-> url, text |-> ""]
TextWord(text) == [url |-> EmptyUrl, text |-> text]
\* parse_webhook_url_components: {"valid": False} unless is_valid_webhook_url
\* accepts the url and the services pattern (the only one it tries) matches it;
\* the groups leave out whatever "$" let follow the token
parse_webhook_url_components(url) ==
    IF is_valid_webhook_url(url) /\ url.kind = "services"
    THEN [valid |-> TRUE, team_id |-> url.segs[1], bot_id |-> url.segs[2], token |-> url.segs[3]]
    ELSE [valid |-> FALSE, team_id |-> <<>>, bot_id |-> <<>>, token |-> <<>>]

\* mask_webhook_url: "https://hooks.slack.com/services/<team_id>/<bot_id>/..."
\* or "Invalid URL"
mask_webhook_url(url) ==
    IF ~is_valid_webhook_url(url) THEN TextWord("Invalid URL")
    ELSE LET components == parse_webhook_url_components(url)
         IN  IF components.valid
             THEN UrlWord([scheme |-> "https", host |-> "hooks.slack.com", kind |-> "services",
                           segs |-> <<components.team_id, components.bot_id, Dots>>,
                           tail |-> ""])
             ELSE TextWord("Invalid URL")
SetupArgs == { <<>>,
               <<UrlWord(ServicesUrl)>>,
               <<UrlWord(HttpUrl)>>,
               <<UrlWord(WorkflowsUrl), TextWord("#dev"), TextWord("proj")>>,
               <<UrlWord(ServicesUrl), TextWord("#dev"), TextWord("proj"), TextWord("extra")>> }

\* validate_setup_arguments: the parsed arguments, or ValueError
validate_setup_arguments_any_url(args) ==
    IF Len(args) < 1 \/ Len(args) > 3
    THEN [raised |-> TRUE, value |-> EmptyDict]
    ELSE LET r1 == [webhook_url |-> args[1].url]
             r2 == IF Len(args) > 1 THEN Put(r1, "default_channel", args[2].text) ELSE r1
             r3 == IF Len(args) > 2 THEN Put(r2, "project_name", args[3].text) ELSE r2
         IN  [raised |-> FALSE, value |-> r3]
validate_setup_arguments(args) ==
    IF Len(args) < 1 \/ Len(args) > 3 \/ ~is_valid_webhook_url(args[1].url)
    THEN [raised |-> TRUE, value |-> EmptyDict]
    ELSE LET r1 == [webhook_url |-> args[1].url]
             r2 == IF Len(args) > 1 THEN Put(r1, "default_channel", args[2].text) ELSE r1
             r3 == IF Len(args) > 2 THEN Put(r2, "project_name", args[3].text) ELSE r2
         IN  [raised |-> FALSE, value |-> r3]

create_configuration_inactive(parsed_args, existing_config) ==
    Put(Put(Update(existing_config, parsed_args), "version", "1.0"), "active", FALSE)
create_configuration(parsed_args, existing_config) ==
    Put(Put(Update(existing_config, parsed_args), "version", "1.0"), "active", TRUE)

\* start: config["active"] = True, and thread_ts when the argument is given
start_update(cfg, args) ==
    IF Has(args, "thread_ts")
    THEN Put(Put(cfg, "active", TRUE), "thread_ts", args["thread_ts"])
    ELSE Put(cfg, "active", TRUE)

\* stop: config["active"] = False, and thread_ts deleted when present
stop_update_keeps_thread(cfg) == Put(cfg, "active", FALSE)
stop_update(cfg) == Del(Put(cfg, "active", FALSE), "thread_ts")

\* migrate_configuration: a copy when the config's version is the target
\* already; ConfigurationError for a target other than "1.0"; else the renamed
\* fields first, then every other field over them, the notifications
\* restructured, and the version set
field_mappings == [slack_webhook |-> "webhook_url", enabled |-> "active"]
migrate_notifications(notifications) ==
    LET n1 == IF Has(notifications, "on_complete")
              THEN Put(EmptyDict, "session_complete", notifications["on_complete"])
              ELSE EmptyDict
    IN  IF Has(notifications, "on_error")
        THEN Put(n1, "error_notifications", notifications["on_error"])
        ELSE n1
migrate_configuration_always(old_config, target_version) ==
    LET others == (DOMAIN old_config) \ ((DOMAIN field_mappings) \cup {"notifications"})
        renamed == { field_mappings[k] : k \in (DOMAIN field_mappings) \cap (DOMAIN old_config) }
        old_key(new_key) == CHOOSE k \in DOMAIN field_mappings : field_mappings[k] = new_key
        migrated == [k \in renamed \cup others |->
                        IF k \in others THEN old_config[k] ELSE old_config[old_key(k)]]
        restructured == IF Has(old_config, "notifications")
                        THEN Put(migrated, "notification_settings",
                                 migrate_notifications(old_config["notifications"]))
                        ELSE migrated
    IN  IF target_version # "1.0"
        THEN [raised |-> TRUE, value |-> EmptyDict]
        ELSE [raised |-> FALSE, value |-> Put(restructured, "version", target_version)]
migrate_configuration(old_config, target_version) ==
    IF Get(old_config, "version", "") = target_version
    THEN [raised |-> FALSE, value |-> old_config]
    ELSE migrate_configuration_always(old_config, target_version)
\* backup_configuration: copies the config to <config>.backup.<timestamp>,
\* or raises ConfigurationError; stamps are the backups there, t the clock
backup_configuration_swallows(copy_ok, stamps, t) ==
    [raised |-> FALSE, backups |-> IF copy_ok THEN stamps \cup {t} ELSE stamps]
backup_configuration(copy_ok, stamps, t) ==
    IF copy_ok THEN [raised |-> FALSE, backups |-> stamps \cup {t}]
    ELSE [raised |-> TRUE, backups |-> stamps]

\* a slash command ended with this exit code
Ended(name, code) ==
    /\ last_cmd' = [name |-> name, exit |-> code]
    /\ cmds' = cmds + 1

\* the files as they are now
Files == [config_kind |-> config_kind, config_data |-> config_data,
          settings_kind |-> settings_kind, settings_data |-> settings_data,
          backups |-> backups]
NoFiles == [config_kind |-> "absent", config_data |-> EmptyDict,
            settings_kind |-> "absent", settings_data |-> EmptyDict, backups |-> {}]
NoCall == [op |-> "none", args |-> <<>>, failed |-> "none", warned |-> FALSE,
           returned |-> FALSE, at |-> 0, before |-> NoFiles,
           repeat |-> FALSE, before2 |-> NoFiles]
\* the record of a call: failed is the step that ended it with an error
\* ("none" when it ran to its end), warned says an error was only reported,
\* returned is its result, before the files it found
Called(op, args, failed, warned, returned) ==
    call' = [op |-> op, args |-> args, failed |-> failed, warned |-> warned,
             returned |-> returned, at |-> now, before |-> Files,
             repeat |-> FALSE, before2 |-> NoFiles]

\* setup <webhook_url> [channel] [project_name].  config_writable and
\* settings_writable say whether save_configuration and save_settings_json
\* can write their file.
Setup(args, config_writable, settings_writable) ==
    /\ pc = "idle"
    /\ cmds < MaxCmds
    /\ LET parsed == validate_setup_arguments(args)
           existing == load_configuration(config_kind, config_data)
           new_config == create_configuration(parsed.value, existing.value)
           settings == load_settings_json(settings_kind, settings_data)
           failed == IF parsed.raised THEN "arguments"
                     ELSE IF existing.raised THEN "load_config"
                     ELSE IF ~config_writable THEN "save_config"
                     ELSE IF settings.raised THEN "load_settings"
                     ELSE IF ~settings_writable THEN "save_settings"
                     ELSE "none"
       IN  /\ Ended("setup", IF failed = "none" THEN 0 ELSE 1)
           /\ Called("setup", args, failed, FALSE, failed = "none")
           /\ IF failed \in {"arguments", "load_config", "save_config"}
              THEN UNCHANGED <<fileVars, stopped, configured>>
              ELSE /\ config_kind' = "json"
                   /\ config_data' = new_config
                   /\ UNCHANGED backups
                   /\ IF failed # "none"
                      THEN UNCHANGED <<settings_kind, settings_data, stopped, configured>>
                      ELSE /\ settings_kind' = "json"
                           /\ settings_data' = register_hook_in_settings(SlackHooks, settings.value)
                           /\ stopped' = FALSE
                           /\ configured' = TRUE
    /\ UNCHANGED <<agg_state, now, utils_importable, upd, procVars, obsVars, sent, runs>>

\* start [key=value ...]: the key=value words, as a dict
StartArgs == { EmptyDict, [thread_ts |-> "1700000000.000100"] }
Start(args, config_writable) ==
    /\ pc = "idle"
    /\ cmds < MaxCmds
    /\ LET loaded == load_configuration(config_kind, config_data)
           cfg == loaded.value
           failed == IF loaded.raised THEN "load_config"
                     ELSE IF Falsy(cfg) THEN "not_configured"
                     ELSE IF Get(cfg, "webhook_url", EmptyUrl) = EmptyUrl THEN "no_webhook"
                     ELSE IF ~config_writable THEN "save_config"
                     ELSE "none"
       IN  /\ Ended("start", IF failed = "none" THEN 0 ELSE 1)
           /\ Called("start", args, failed, FALSE, failed = "none")
           /\ IF failed # "none"
              THEN UNCHANGED <<fileVars, stopped, configured>>
              ELSE /\ config_data' = start_update(cfg, args)
                   /\ stopped' = FALSE
                   /\ UNCHANGED <<config_kind, settings_kind, settings_data, backups, configured>>
    /\ UNCHANGED <<agg_state, now, utils_importable, upd, procVars, obsVars, sent, runs>>

\* stop
Stop(config_writable) ==
    /\ pc = "idle"
    /\ cmds < MaxCmds
    /\ LET loaded == load_configuration(config_kind, config_data)
           cfg == loaded.value
           failed == IF loaded.raised THEN "load_config"
                     ELSE IF Falsy(cfg) THEN "not_configured"
                     ELSE IF ~config_writable THEN "save_config"
                     ELSE "none"
       IN  /\ Ended("stop", IF failed = "none" THEN 0 ELSE 1)
           /\ Called("stop", <<>>, failed, FALSE, failed = "none")
           /\ IF failed # "none"
              THEN UNCHANGED <<fileVars, stopped, configured>>
              ELSE /\ config_data' = stop_update(cfg)
                   /\ stopped' = TRUE
                   /\ configured' = FALSE
                   /\ UNCHANGED <<config_kind, settings_kind, settings_data, backups>>
    /\ UNCHANGED <<agg_state, now, utils_importable, upd, procVars, obsVars, sent, runs>>

\* remove [--force|-f].  confirmed is the answer to the prompt; the three
\* flags say whether the backup copy, the settings write and os.remove work.
\* A failure to unregister the hooks is only reported (warned).
Remove(force, confirmed, backup_ok, settings_writable, delete_ok) ==
    /\ pc = "idle"
    /\ cmds < MaxCmds
    /\ LET nothing == config_kind = "absent" \/ (~force /\ ~confirmed)
           backup == backup_configuration(backup_ok, backups, now)
           settings == load_settings_json(settings_kind, settings_data)
           un == unregister_hooks_from_settings(SlackHooks, settings.value)
           saved == ~settings.raised /\ un.hooks_removed /\ settings_writable
           warned == ~nothing /\ ~backup.raised
                     /\ (settings.raised \/ (un.hooks_removed /\ ~settings_writable))
           failed == IF nothing THEN "none"
                     ELSE IF backup.raised THEN "backup"
                     ELSE IF ~delete_ok THEN "delete"
                     ELSE "none"
       IN  /\ Ended("remove", IF failed = "none" THEN 0 ELSE 1)
           /\ Called("remove", [force |-> force], failed, warned, ~nothing /\ failed = "none")
           /\ IF nothing \/ failed = "backup"
              THEN UNCHANGED <<fileVars, stopped, configured>>
              ELSE /\ backups' = backup.backups
                   /\ settings_kind' = settings_kind
                   /\ settings_data' = IF saved THEN un.settings ELSE settings_data
                   /\ IF delete_ok
                      THEN /\ config_kind' = "absent"
                           /\ config_data' = EmptyDict
                           /\ configured' = FALSE
                           /\ UNCHANGED stopped
                      ELSE UNCHANGED <<config_kind, config_data, stopped, configured>>
    /\ UNCHANGED <<agg_state, now, utils_importable, upd, procVars, obsVars, sent, runs>>

\* ------------------------------------------- the settings functions, called
\* register_hook_in_settings(hooks_to_register): loads settings.json, adds the
\* hooks, saves; raises ConfigurationError when the file cannot be read or written
RegisterCall(hooks_to_register, settings_writable) ==
    /\ pc = "idle"
    /\ cmds < MaxCmds
    /\ cmds' = cmds + 1
    /\ LET settings == load_settings_json(settings_kind, settings_data)
           failed == IF settings.raised THEN "load_settings"
                     ELSE IF ~settings_writable THEN "save_settings"
                     ELSE "none"
           repeat == /\ call.op = "register" /\ call.failed = "none"
                     /\ call.args = hooks_to_register /\ failed = "none"
       IN  /\ call' = [op |-> "register", args |-> hooks_to_register, failed |-> failed,
                       warned |-> FALSE, returned |-> failed = "none", at |-> now,
                       before |-> Files, repeat |-> repeat,
                       before2 |-> IF repeat THEN call.before ELSE NoFiles]
           /\ IF failed # "none"
              THEN UNCHANGED <<settings_kind, settings_data>>
              ELSE /\ settings_kind' = "json"
                   /\ settings_data' = register_hook_in_settings(hooks_to_register, settings.value)
    /\ UNCHANGED <<config_kind, config_data, backups, agg_state, now, utils_importable, upd,
                   procVars, obsVars, sent, stopped, configured, last_cmd, runs>>

\* unregister_hooks_from_settings(hooks_to_remove): loads settings.json,
\* filters every hook type, saves only if an entry went, returns whether one did
UnregisterCall(hooks_to_remove, settings_writable) ==
    /\ pc = "idle"
    /\ cmds < MaxCmds
    /\ cmds' = cmds + 1
    /\ LET settings == load_settings_json(settings_kind, settings_data)
           un == unregister_hooks_from_settings(hooks_to_remove, settings.value)
           failed == IF settings.raised THEN "load_settings"
                     ELSE IF un.hooks_removed /\ ~settings_writable THEN "save_settings"
                     ELSE "none"
       IN  /\ Called("unregister", hooks_to_remove, failed, FALSE,
                     failed = "none" /\ un.hooks_removed)
           /\ settings_kind' = settings_kind
           /\ settings_data' = IF failed = "none" /\ un.hooks_removed
                               THEN un.settings ELSE settings_data
    /\ UNCHANGED <<config_kind, config_data, backups, agg_state, now, utils_importable, upd,
                   procVars, obsVars, sent, stopped, configured, last_cmd, runs>>

\* ------------------------------------------------------------ specification
\* The config files a behaviour may start with: the hand-written forms the
\* hooks read (key "enabled"), and the file `setup` writes on a fresh project.
NoSchemeUrl == [scheme |-> "", host |-> "hooks.slack.com", kind |-> "services",
                segs |-> << <<"T","0">>, <<"B","0">>, <<"x","Y","1">> >>, tail |-> ""]
EnabledConfig == [webhook_url |-> ServicesUrl, enabled |-> TRUE, project_name |-> "test-project"]
InitConfigs ==
    { EnabledConfig,
      [webhook_url |-> WorkflowsUrl, enabled |-> TRUE,
       tool_filters |-> [notify_on |-> <<"Read", "Write">>, aggregate_timeout |-> 5,
                         max_notifications_per_session |-> 1]],
      [webhook_url |-> ServicesUrl, enabled |-> TRUE,
       tool_filters |-> [notify_on |-> <<>>, aggregate_timeout |-> 0]],
      [webhook_url |-> HttpUrl, enabled |-> TRUE],
      [webhook_url |-> NoSchemeUrl, enabled |-> TRUE],
      create_configuration([webhook_url |-> ServicesUrl], EmptyDict) }
InitSettings ==
    { [hooks |-> [posttooluse |-> <<ObjEntry("$CLAUDE_PROJECT_DIR/.claude/hooks/lint.py")>>],
       theme |-> "dark"] }

\* everything but the config file
Boot ==
    /\ settings_kind = "json" /\ settings_data \in InitSettings
    /\ backups = {}
    /\ agg_state = [sid \in Sessions |-> NoStateFile]
    /\ now = 0
    /\ utils_importable = TRUE \/ utils_importable = FALSE
    /\ upd = NoUpd
    /\ pc = "idle"
    /\ hook = "none"
    /\ input = NoInput
    /\ config = PyNone
    /\ description = ""
    /\ message = "none"
    /\ attempt = 0
    /\ result = "none"
    /\ exit_code = NoExit
    /\ trace = <<>>
    /\ posts = 0
    /\ post_url = EmptyUrl
    /\ sleeps = <<>>
    /\ outcome = "running"
    /\ prev_notification = NoPrevious
    /\ sent = [sid \in Sessions |-> 0]
    /\ stopped = FALSE
    /\ configured = FALSE
    /\ last_cmd = [name |-> "none", exit |-> 0]
    /\ call = NoCall
    /\ runs = 0
    /\ cmds = 0

Init ==
    /\ Boot
    /\ \/ config_kind = "json" /\ config_data = EnabledConfig
       \/ config_kind = "json" /\ config_data \in InitConfigs \ {EnabledConfig}
       \/ config_kind = "absent" /\ config_data = EmptyDict
       \/ config_kind = "corrupt" /\ config_data = EmptyDict

\* seconds between two invocations: at once, past the aggregation window, past the cleanup age
Delays == {0, 6, 3601}

HookStep ==
    \/ ParseInput
    \/ StopGate
    \/ LoadConfig
    \/ ToolFilter
    \/ ValidateUrl
    \/ UpdateState
    \/ BuildMessage
    \/ \E http \in SendOutcomes : SendAttempt(http)
    \/ Backoff
    \/ ReportResult
    \/ HookExit

\* The hooks alone, on every kind of input, over a config file nobody changes.
Next ==
    \/ \E h \in Hooks : \E inp \in Inputs(h) : \E d \in Delays : HookStart(h, inp, d)
    \/ HookStep

Spec == Init /\ [][Next]_vars

\* The slash commands and the hooks together: the hooks get well-formed
\* events, one after the other.
InitLifecycle ==
    /\ Boot
    /\ \/ config_kind = "absent" /\ config_data = EmptyDict
       \/ config_kind = "json" /\ config_data = EnabledConfig
       \/ config_kind = "corrupt" /\ config_data = EmptyDict

Command ==
    \/ \E args \in SetupArgs, cw \in BOOLEAN, sw \in BOOLEAN : Setup(args, cw, sw)
    \/ \E args \in StartArgs, cw \in BOOLEAN : Start(args, cw)
    \/ \E cw \in BOOLEAN : Stop(cw)
    \/ \E force \in BOOLEAN, confirmed \in BOOLEAN, backup_ok \in BOOLEAN,
          sw \in BOOLEAN, delete_ok \in BOOLEAN : Remove(force, confirmed, backup_ok, sw, delete_ok)

NextLifecycle ==
    \/ \E h \in Hooks : \E inp \in { i \in Inputs(h) : i.json = "object" /\ RequiredFieldsPresent(h, i) } :
          HookStart(h, inp, 0)
    \/ HookStep
    \/ Command

SpecLifecycle == InitLifecycle /\ [][NextLifecycle]_vars

\* The settings functions alone, called with any hook list on a settings.json
\* in either form: hooks listed as bare filenames (what
\* register_hook_in_settings writes) or as {command, description} objects.
HooksDir == "$CLAUDE_PROJECT_DIR/.claude/hooks/"
StandardEntry(hook_file) == ObjEntry(HooksDir \o hook_file)
ObjectSettings ==
    [hooks |-> [notification |-> <<StandardEntry("notification-slack.py")>>,
                posttooluse |-> <<ObjEntry(HooksDir \o "lint.py"),
                                  StandardEntry("posttooluse-slack.py")>>,
                stop |-> <<StandardEntry("stop-slack.py")>>],
     theme |-> "dark"]
FilenameSettings ==
    [hooks |-> [notification |-> <<StrEntry("notification-slack.py"),
                                   StrEntry("other-notification.py")>>,
                posttooluse |-> <<StrEntry("posttooluse-slack.py")>>,
                stop |-> <<StrEntry("stop-slack.py"), StrEntry("other-stop.py")>>],
     other_setting |-> "preserved_value"]
SettingsInputs == InitSettings \cup {ObjectSettings, FilenameSettings, [theme |-> "dark"]}
HookLists == { <<>>,
               <<"notification-slack.py">>,
               <<"stop-slack.py", "stop-slack.py">>,
               SlackHooks,
               <<"other-stop.py">>,
               <<"posttooluse-slack.py", "lint.py">> }

\* Boot with the settings file left open
BootFiles(kind, data, files) ==
    /\ settings_kind = kind /\ settings_data = data
    /\ backups = {}
    /\ agg_state = files
    /\ now = 0
    /\ utils_importable = TRUE
    /\ upd = NoUpd
    /\ pc = "idle"
    /\ hook = "none"
    /\ input = NoInput
    /\ config = PyNone
    /\ description = ""
    /\ message = "none"
    /\ attempt = 0
    /\ result = "none"
    /\ exit_code = NoExit
    /\ trace = <<>>
    /\ posts = 0
    /\ post_url = EmptyUrl
    /\ sleeps = <<>>
    /\ outcome = "running"
    /\ prev_notification = NoPrevious
    /\ sent = [sid \in Sessions |-> 0]
    /\ stopped = FALSE
    /\ configured = FALSE
    /\ last_cmd = [name |-> "none", exit |-> 0]
    /\ call = NoCall
    /\ runs = 0
    /\ cmds = 0

BootWith(kind, data) == BootFiles(kind, data, [sid \in Sessions |-> NoStateFile])

InitSettingsCalls ==
    /\ config_kind = "absent" /\ config_data = EmptyDict
    /\ \/ \E data \in SettingsInputs : BootWith("json", data)
       \/ BootWith("absent", EmptyDict)
       \/ BootWith("corrupt", EmptyDict)

NextSettingsCalls ==
    \/ \E hooks \in HookLists, sw \in BOOLEAN : RegisterCall(hooks, sw)
    \/ \E hooks \in HookLists, sw \in BOOLEAN : UnregisterCall(hooks, sw)

SpecSettings == InitSettingsCalls /\ [][NextSettingsCalls]_vars

\* The slash commands alone, over every kind of config file and settings file.
ActiveConfig == [version |-> "1.0", webhook_url |-> ServicesUrl, active |-> TRUE,
                 project_name |-> "test-project", default_channel |-> "#dev",
                 thread_ts |-> "1699999999.000200"]
CommandConfigs == { EnabledConfig, ActiveConfig, [active |-> TRUE, project_name |-> "test-project"] }

InitCommands ==
    /\ \/ config_kind = "json" /\ config_data \in CommandConfigs
       \/ config_kind = "absent" /\ config_data = EmptyDict
       \/ config_kind = "corrupt" /\ config_data = EmptyDict
    /\ \/ \E data \in InitSettings \cup {ObjectSettings, FilenameSettings} : BootWith("json", data)
       \/ BootWith("absent", EmptyDict)
       \/ BootWith("corrupt", EmptyDict)

SpecCommands == InitCommands /\ [][Command]_vars

\* is_valid_webhook_url alone, over strings that match a shape and strings
\* that differ from it in one or more parts.
Schemes == {"https", "http", "HTTPS"}
Hosts == {"hooks.slack.com", "example.com", "hooksXslack.com"}
Kinds == {"services", "workflows", "triggers"}
SegLists == { << <<"T","0">>, <<"B","0">>, <<"x","Y","1">> >>,
              << <<"T","1">>, <<"A","1">>, <<"9">>, <<"z">> >>,
              << <<"t","0">>, <<"B","0">>, <<"x","Y","1">> >>,
              << <<"T","0">>, <<"b","0">>, <<"x","Y","1">> >>,
              << <<"T","1">>, <<"a","1">>, <<"9">>, <<"z">> >>,
              << <<"T","a">>, <<"B","0">>, <<"x","Y","1">> >>,
              << <<"T">>, <<"B","0">>, <<"x","Y","1">> >>,
              << <<"T","0">>, <<"B","0">>, <<"x","-","1">> >>,
              << <<"T","0">>, <<"B","0">> >>,
              << <<"T","0">>, <<"B","0">>, <<"x","Y","1">>, <<"z">> >>,
              << <<"T","1">>, <<"A","1">>, <<"9">> >> }
QueryTails == {"?x=1"}
FragmentTails == {"#f"}
Tails == {"", "\n", "/"} \cup QueryTails \cup FragmentTails
UrlInputs ==
    {EmptyUrl} \cup
    { [scheme |-> s, host |-> h, kind |-> k, segs |-> g, tail |-> t] :
          s \in Schemes, h \in Hosts, k \in Kinds, g \in SegLists, t \in Tails }

IsValidCall(url) ==
    /\ pc = "idle"
    /\ cmds < MaxCmds
    /\ cmds' = cmds + 1
    /\ call' = [op |-> "is_valid_webhook_url", args |-> url, failed |-> "none",
                warned |-> FALSE, returned |-> is_valid_webhook_url(url), at |-> now,
                before |-> Files, repeat |-> FALSE, before2 |-> NoFiles]
    /\ UNCHANGED <<fileVars, agg_state, now, utils_importable, upd, procVars, obsVars, sent,
                   stopped, configured, last_cmd, runs>>

MaskCall(url) ==
    /\ pc = "idle"
    /\ cmds < MaxCmds
    /\ cmds' = cmds + 1
    /\ call' = [op |-> "mask_webhook_url", args |-> url, failed |-> "none",
                warned |-> FALSE, returned |-> mask_webhook_url(url), at |-> now,
                before |-> Files, repeat |-> FALSE, before2 |-> NoFiles]
    /\ UNCHANGED <<fileVars, agg_state, now, utils_importable, upd, procVars, obsVars, sent,
                   stopped, configured, last_cmd, runs>>
InitUrl ==
    /\ config_kind = "absent" /\ config_data = EmptyDict
    /\ BootWith("absent", EmptyDict)

NextUrl ==
    \/ \E url \in UrlInputs : IsValidCall(url)
    \/ \E url \in UrlInputs : MaskCall(url)

SpecUrl == InitUrl /\ [][NextUrl]_vars

\* update_aggregation_state called by PostToolUse processes that overlap
InitConcurrent ==
    /\ config_kind = "absent" /\ config_data = EmptyDict
    /\ BootWith("absent", EmptyDict)

NextConcurrent ==
    \/ \E i \in Workers, sid \in Sessions, tool_name \in Tools : UpdBegin(i, sid, tool_name)
    \/ \E i \in Workers : UpdLoad(i)
    \/ \E i \in Workers : UpdOpen(i)
    \/ \E i \in Workers, lock_ok \in BOOLEAN : UpdFlock(i, lock_ok)
    \/ \E i \in Workers, clean \in BOOLEAN : UpdDump(i, clean)
    \/ \E i \in Workers : UpdUnlock(i)

SpecConcurrent == InitConcurrent /\ [][NextConcurrent]_vars
\* The PostToolUse hook's aggregated message, over sessions whose state file
\* holds no record, one, four, five and ten (the most it keeps)
Rec(tool_name, desc) ==
    [tool_name |-> tool_name, description |-> desc, timestamp |-> 0]
ToolLists ==
    { << Rec("Read", "Read a.py") >>,
      << Rec("Read", "Read a.py"), Rec("Write", "Created b.py"),
         Rec("Read", "Read c.py"), Rec("Grep", "Searched for: x") >>,
      << Rec("Bash", "Executed: ls"), Rec("Read", "Read a.py"), Rec("Write", "Created b.py"),
         Rec("Read", "Read c.py"), Rec("Write", "Created d.py") >>,
      << Rec("Edit", "Modified a.py"), Rec("Read", "Read a.py"), Rec("Read", "Read b.py"),
         Rec("Read", "Read c.py"), Rec("Read", "Read d.py"), Rec("Bash", "Executed: ls"),
         Rec("Read", "Read e.py"), Rec("Write", "Created f.py"), Rec("Read", "Read g.py"),
         Rec("Read", "Read h.py") >> }
StateFiles ==
    {NoStateFile} \cup
    { [exists |-> TRUE, tools |-> tools, last_notification |-> 0,
       notification_count |-> Len(tools)] : tools \in ToolLists }

\* PostToolUse main, from "Update aggregation state" to the message: the state
\* file is updated first, then read again by should_aggregate_notification and
\* by create_aggregated_message
AggregateCall(sid, tool_name) ==
    /\ pc = "idle"
    /\ runs < MaxRuns
    /\ runs' = runs + 1
    /\ LET desc == generate_tool_description(tool_name)
           file == update_aggregation_state(agg_state[sid], tool_name, desc, now)
           aggregated == should_aggregate_notification(file, config_data, now)
       IN  /\ agg_state' = [agg_state EXCEPT ![sid] = file]
           /\ call' = [op |-> IF aggregated THEN "aggregated" ELSE "individual",
                       args |-> [session_id |-> sid, tool_name |-> tool_name],
                       failed |-> "none", warned |-> FALSE,
                       returned |-> create_aggregated_message(file, tool_name, desc, now),
                       at |-> now, before |-> Files, repeat |-> FALSE, before2 |-> NoFiles]
    /\ UNCHANGED <<fileVars, now, utils_importable, upd, procVars, obsVars, sent,
                   stopped, configured, last_cmd, cmds>>
InitAggregate ==
    /\ config_kind = "json" /\ config_data = EnabledConfig
    /\ \E file \in StateFiles :
          BootFiles("absent", EmptyDict, [sid \in Sessions |-> IF sid = "s1" THEN file ELSE NoStateFile])

NextAggregate == \E sid \in Sessions, tool_name \in Tools : AggregateCall(sid, tool_name)

SpecAggregate == InitAggregate /\ [][NextAggregate]_vars
\* The hooks over a working config, their POSTs answered, refused or timing out
InitSend ==
    /\ Boot
    /\ config_kind = "json" /\ config_data = EnabledConfig

NextSend ==
    \/ \E h \in Hooks : \E inp \in { i \in Inputs(h) : i.json = "object" /\ RequiredFieldsPresent(h, i) } :
          HookStart(h, inp, 0)
    \/ HookStep
    \/ SendTimeout

SpecSend == InitSend /\ [][NextSend]_vars
\* parse_transcript_for_summary alone, over every transcript of up to
\* MaxLines lines
TranscriptLines ==
    { AssistantLine(<<"Write">>), AssistantLine(<<"Write", "Edit", "Bash">>),
      UserLine, MalformedLine, NotObjectLine }
RECURSIVE SeqsUpTo(_, _)
SeqsUpTo(S, n) ==
    IF n = 0 THEN {<<>>}
    ELSE LET shorter == SeqsUpTo(S, n - 1)
         IN  shorter \cup { Append(s, x) : s \in { t \in shorter : Len(t) = n - 1 }, x \in S }
Transcripts == SeqsUpTo(TranscriptLines, MaxLines)

ParseCall(lines) ==
    /\ pc = "idle"
    /\ cmds < MaxCmds
    /\ cmds' = cmds + 1
    /\ call' = [op |-> "parse_transcript_for_summary", args |-> lines, failed |-> "none",
                warned |-> FALSE, returned |-> parse_transcript_for_summary(lines), at |-> now,
                before |-> Files, repeat |-> FALSE, before2 |-> NoFiles]
    /\ UNCHANGED <<fileVars, agg_state, now, utils_importable, upd, procVars, obsVars, sent,
                   stopped, configured, last_cmd, runs>>

NextTranscript == \E lines \in Transcripts : ParseCall(lines)

SpecTranscript == InitUrl /\ [][NextTranscript]_vars
\* truncate_message_content alone: limits below 3, too small for a word
\* boundary to count, and with room for one; contents shorter and longer than
\* the limit with spaces around 80% of it
MaxLengths == {2, 10, 25, 30}
ContentLengths == {0, 5, 26, 31, 40}
SpaceIndexes == {3, 20, 21, 24, 25}
Content(n, spaces) == [i \in 1..n |-> IF (i - 1) \in spaces THEN " " ELSE "x"]
Contents == { Content(n, spaces) : n \in ContentLengths, spaces \in SUBSET SpaceIndexes }

TruncateCall(content, max_length) ==
    /\ pc = "idle"
    /\ cmds < MaxCmds
    /\ cmds' = cmds + 1
    /\ call' = [op |-> "truncate_message_content",
                args |-> [content |-> content, max_length |-> max_length], failed |-> "none",
                warned |-> FALSE, returned |-> truncate_message_content(content, max_length),
                at |-> now, before |-> Files, repeat |-> FALSE, before2 |-> NoFiles]
    /\ UNCHANGED <<fileVars, agg_state, now, utils_importable, upd, procVars, obsVars, sent,
                   stopped, configured, last_cmd, runs>>

NextTruncate == \E content \in Contents, max_length \in MaxLengths : TruncateCall(content, max_length)

SpecTruncate == InitUrl /\ [][NextTruncate]_vars
\* migrate_configuration alone: configs holding any of the old and the new
\* keys, with no version, an old one, the current one and a later one
FullConfig(version, enabled) ==
    [slack_webhook |-> ServicesUrl, enabled |-> enabled, version |-> version,
     webhook_url |-> WorkflowsUrl, active |-> TRUE,
     notifications |-> [on_complete |-> TRUE, on_error |-> FALSE]]
OldConfigs ==
    { [k \in keys |-> FullConfig(version, enabled)[k]] :
          keys \in SUBSET {"slack_webhook", "enabled", "version", "webhook_url", "active", "notifications"},
          version \in {"0.9", "1.0", "2.0"}, enabled \in BOOLEAN }
TargetVersions == {"1.0", "2.0", "unsupported_version"}

MigrateCall(old_config, target_version) ==
    /\ pc = "idle"
    /\ cmds < MaxCmds
    /\ cmds' = cmds + 1
    /\ LET migrated == migrate_configuration(old_config, target_version)
       IN  call' = [op |-> "migrate_configuration",
                    args |-> [old_config |-> old_config, target_version |-> target_version],
                    failed |-> IF migrated.raised THEN "ConfigurationError" ELSE "none",
                    warned |-> FALSE, returned |-> migrated.value,
                    at |-> now, before |-> Files, repeat |-> FALSE, before2 |-> NoFiles]
    /\ UNCHANGED <<fileVars, agg_state, now, utils_importable, upd, procVars, obsVars, sent,
                   stopped, configured, last_cmd, runs>>

NextMigrate == \E old_config \in OldConfigs, target_version \in TargetVersions :
                   MigrateCall(old_config, target_version)

SpecMigrate == InitUrl /\ [][NextMigrate]_vars
\* ------------------------------------------------------------------ claims
\* the run in flight read a JSON object with every required field of its hook
InputValid == input.json = "object" /\ RequiredFieldsPresent(hook, input)
\* the config file as the hooks' load_config sees it
ConfigUsable == ~Falsy(load_config(config_kind, config_data))

\* position of the first occurrence of a label in the trace, 0 if absent
Pos(label) ==
    IF \E i \in 1..Len(trace) : trace[i] = label
    THEN CHOOSE i \in 1..Len(trace) : trace[i] = label /\ \A j \in 1..(i - 1) : trace[j] # label
    ELSE 0
\* every label was passed, and in this order
InOrder(labels) ==
    /\ \A i \in 1..Len(labels) : Pos(labels[i]) > 0
    /\ \A i \in 1..(Len(labels) - 1) : Pos(labels[i]) < Pos(labels[i + 1])

\* C1, as stated: in every hook a POST is attempted only after the input was
\* parsed and validated, then the config loaded and found enabled, then the
\* hook-specific gate passed, then the message built, in this order.
C1_PostOnlyAfterStepsInOrder ==
    posts > 0 => InOrder(<<"parsed", "validated", "config", "gate", "built", "post">>)

\* C1, amended: the Notification and PostToolUse hooks POST only after
\* parse, validate, config, gate, build in this order; the Stop hook POSTs
\* only after parse, validate, gate, config, build in this order (its gate
\* comes before the config is loaded); a run that ended without having
\* passed all of these steps attempted no POST.
C1_PostOnlyAfterSteps ==
    /\ posts > 0 =>
          IF hook = "Stop"
          THEN InOrder(<<"parsed", "validated", "gate", "config", "built", "post">>)
          ELSE InOrder(<<"parsed", "validated", "config", "gate", "built", "post">>)
    /\ (pc = "done" /\ Pos("built") = 0) => posts = 0
\* a Stop run that attempted a POST
C1_Witness == hook = "Stop" /\ pc = "done" /\ posts > 0

C3_NoPostAfterStop ==
    (stopped /\ pc # "idle") => (posts = 0 /\ (pc = "done" => exit_code = 0))

\* C4: after `setup <valid url>` has succeeded, with no later `stop` or
\* `remove`, a hook given valid input for its event type (one its own gate
\* lets through) attempts a POST to the configured URL.
C4_PostAfterSetup ==
    ( /\ configured
      /\ pc = "done"
      /\ InputValid
      /\ hook = "Stop" => ~input.stop_hook_active
      /\ hook = "PostToolUse" => InList(input.tool_name, default_tools) )
    => (posts > 0 /\ post_url = config_data["webhook_url"])

\* C5: no hook POSTs to a stored webhook_url that matches neither URL shape;
\* a run over an invalid stored URL ends with exit 1 and no POST.
C5_PostOnlyToValidUrl ==
    /\ posts > 0 => is_valid_webhook_url(post_url)
    /\ ( /\ pc = "done" /\ Pos("config") > 0
         /\ hook = "PostToolUse" => Pos("gate") > 0
         /\ ~is_valid_webhook_url(config["webhook_url"]) )
       => (exit_code = 1 /\ posts = 0)

\* C6: send_webhook makes at most 3 POST attempts and stops at the first
\* success; it sleeps 1 s after the first failed attempt, 2 s after the
\* second, not after the third, and then returns a failure result.
C6_RetryAndBackoff ==
    /\ posts <= 3
    /\ sleeps \in {<<>>, <<1>>, <<1, 2>>}
    /\ pc = "send" => (Len(sleeps) = posts /\ result = "none")
    /\ pc = "sleep" => (Len(sleeps) = posts - 1 /\ result = "none")
    /\ result = "success" => (pc \in {"exit", "done"} /\ Len(sleeps) = posts - 1)
    /\ result = "failure" =>
          /\ pc \in {"exit", "done"}
          /\ \/ posts = 3 /\ sleeps = <<1, 2>>
             \/ posts = 0 /\ sleeps = <<>>
          /\ pc = "done" => outcome = "send_failed"
\* three failed attempts with the two sleeps between them
C6_Witness == pc = "done" /\ posts = 3 /\ sleeps = <<1, 2>> /\ result = "failure"

\* C7: a PostToolUse event past the filter updates the AggregationState and
\* is then sent aggregated exactly when the session's previous notification
\* was less than aggregate_timeout seconds ago: the first event of a session,
\* and one arriving later than that, is sent as an individual message.
C7_AggregateOnlyWithinWindow ==
    (hook = "PostToolUse" /\ pc = "send" /\ posts = 0) =>
        LET aggregate_timeout == Get(Get(config, "tool_filters", EmptyDict),
                                     "aggregate_timeout", DefaultAggregateTimeout)
            within == prev_notification.known /\ now - prev_notification.at < aggregate_timeout
        IN  /\ InOrder(<<"state", "built">>)
            /\ message = (IF within THEN "aggregated" ELSE "individual")

\* C8: the notifications the PostToolUse hook delivers for one session never
\* exceed tool_filters.max_notifications_per_session (default 10).
C8_RateLimited ==
    config_kind = "json" =>
        \A sid \in Sessions :
            sent[sid] <= Get(Get(config_data, "tool_filters", EmptyDict),
                             "max_notifications_per_session", DefaultMaxNotifications)

\* the tools the PostToolUse run in flight may notify for, given its config:
\* the configured list, or the default tools when the key is absent (C9 as
\* stated) or the list is absent or empty (C9 amended)
NotifyOn == Get(Get(config, "tool_filters", EmptyDict), "notify_on", <<>>)
ListConfigured == Has(Get(config, "tool_filters", EmptyDict), "notify_on")
Reached(step) == Pos(step) > 0

\* C9, as stated: the PostToolUse hook attempts a POST only for a tool in
\* tool_filters.notify_on, or in {Write, Edit, MultiEdit, Bash} when no such
\* list is configured; for every other tool it exits 0 without a POST.
C9_PostOnlyForListedTool ==
    (hook = "PostToolUse" /\ Reached("config")) =>
        LET allowed == IF ListConfigured THEN InList(input.tool_name, NotifyOn)
                       ELSE InList(input.tool_name, default_tools)
        IN  /\ posts > 0 => allowed
            /\ (pc = "done" /\ ~allowed) => (exit_code = 0 /\ posts = 0)

\* C9, amended: ... or in {Write, Edit, MultiEdit, Bash} when no such list
\* is configured or the configured list is empty; for every other tool it
\* exits 0 without a POST.
C9_PostOnlyForAllowedTool ==
    (hook = "PostToolUse" /\ Reached("config")) =>
        LET allowed == IF ListConfigured /\ NotifyOn # <<>> THEN InList(input.tool_name, NotifyOn)
                       ELSE InList(input.tool_name, default_tools)
        IN  /\ posts > 0 => allowed
            /\ (pc = "done" /\ ~allowed) => (exit_code = 0 /\ posts = 0)
\* a POST for a default tool under a configured, empty list
C9_Witness ==
    /\ hook = "PostToolUse" /\ posts > 0
    /\ ListConfigured /\ NotifyOn = <<>>

\* C10: a Stop invocation with the required fields and stop_hook_active
\* true attempts no POST and exits 0.
C10_ActiveStopIsSilent ==
    (hook = "Stop" /\ InputValid /\ input.stop_hook_active) =>
        /\ posts = 0
        /\ pc \in {"parse", "gate", "done"}
        /\ pc = "done" => exit_code = 0
\* such a run has ended, over a config that would otherwise have let it send
C10_Witness ==
    /\ hook = "Stop" /\ pc = "done" /\ InputValid /\ input.stop_hook_active
    /\ ConfigUsable /\ exit_code = 0

\* C11: a hook run that gets as far as reading the config exits 0 when
\* slack-config.json does not exist, and with a non-zero code when the file
\* exists but cannot be parsed as JSON.
C11_CorruptConfigFails ==
    (pc = "done" /\ InputValid /\ (hook = "Stop" => ~input.stop_hook_active)) =>
        /\ config_kind = "absent" => exit_code = 0
        /\ config_kind = "corrupt" => exit_code # 0

\* the script an entry of a hooks list runs: a bare filename names it, an
\* object names it by the last part of its command path
Range(list) == {list[i] : i \in 1..Len(list)}
ScriptOf(e) ==
    IF e.kind = "obj" /\ \E f \in Range(SlackHooks) : e.command = HooksDir \o f
    THEN CHOOSE f \in Range(SlackHooks) : e.command = HooksDir \o f
    ELSE e.command
IsSlackEntry(e) == ScriptOf(e) \in Range(SlackHooks)
HooksOf(kind, data) == IF kind = "json" THEN Get(data, "hooks", EmptyDict) ELSE EmptyDict
OtherKeysSame(before, after) ==
    /\ DOMAIN after \ {"hooks"} = DOMAIN before \ {"hooks"}
    /\ \A k \in DOMAIN before \ {"hooks"} : after[k] = before[k]
BeforeSettings == IF call.before.settings_kind = "json" THEN call.before.settings_data ELSE EmptyDict

\* C12: starting from at most one entry per hook type per *-slack.py script
\* (bare filename or object), no sequence of register and unregister calls
\* leaves a hook type with more than one entry for the same script.
C12_OneEntryPerScript ==
    \A t \in DOMAIN HooksOf(settings_kind, settings_data) :
        \A f \in Range(SlackHooks) :
            LET list == HooksOf(settings_kind, settings_data)[t]
            IN  Cardinality({i \in 1..Len(list) : ScriptOf(list[i]) = f}) <= 1

\* C13: a second register call with the same hook list, right after the
\* first, leaves settings.json as the first call left it.
C13_RegisterIdempotent ==
    (call.op = "register" /\ call.repeat) =>
        /\ settings_kind = call.before.settings_kind
        /\ settings_data = call.before.settings_data
\* such a second call, after a first one that did change the file
C13_Witness ==
    /\ call.op = "register" /\ call.repeat /\ call.args = SlackHooks
    /\ call.before2.settings_data # call.before.settings_data

\* C14: a register call that succeeds appends, for each requested hook type
\* that holds no *-slack.py command yet, the standard entry
\* {command: "$CLAUDE_PROJECT_DIR/.claude/hooks/<name>", description}, and
\* leaves every other top-level key and every other hook entry as it was.
C14_RegisterAppendsStandardEntry ==
    (call.op = "register" /\ call.failed = "none") =>
        LET old == Get(BeforeSettings, "hooks", EmptyDict)
            new == HooksOf(settings_kind, settings_data)
            requested == {f \in Range(call.args) : f \in DOMAIN hook_types}
            types == {hook_types[f] : f \in requested}
        IN  /\ OtherKeysSame(BeforeSettings, settings_data)
            /\ \A t \in DOMAIN old \ types : t \in DOMAIN new /\ new[t] = old[t]
            /\ \A f \in requested :
                  LET t == hook_types[f]
                      was == Get(old, t, <<>>)
                  IN  /\ t \in DOMAIN new
                      /\ new[t] = IF \E e \in Range(was) : IsSlackEntry(e)
                                  THEN was ELSE Append(was, StandardEntry(f))

\* C15: an unregister call that succeeds removes every entry for a given
\* filename from every hook type, returns true exactly when an entry was
\* removed, deletes a hook-type key whose list became empty, and leaves the
\* other entries and the other keys as they were.
C15_UnregisterRemovesAndPrunes ==
    (call.op = "unregister" /\ call.failed = "none") =>
        LET old == Get(BeforeSettings, "hooks", EmptyDict)
            new == HooksOf(settings_kind, settings_data)
            matches(e) == ScriptOf(e) \in Range(call.args)
            kept(t) == SelectSeq(old[t], LAMBDA e : ~matches(e))
        IN  /\ call.returned = (\E t \in DOMAIN old : \E e \in Range(old[t]) : matches(e))
            /\ settings_kind = call.before.settings_kind
            /\ settings_kind = "json" => OtherKeysSame(BeforeSettings, settings_data)
            /\ \A t \in DOMAIN old :
                  /\ kept(t) # <<>> => (t \in DOMAIN new /\ new[t] = kept(t))
                  /\ (kept(t) = <<>> /\ old[t] # <<>>) => t \notin DOMAIN new

\* the entries of a hooks list that are not for a *-slack.py script
Unrelated(list) == SelectSeq(list, LAMBDA e : ~IsSlackEntry(e))

\* C16: `remove --force` on an existing config, when no file operation
\* fails, ends with the config file deleted, exactly one backup file, no
\* *-slack.py entry left in settings.json, every unrelated hook entry and
\* setting untouched, and exit code 0.
C16_RemoveForceEndToEnd ==
    ( /\ call.op = "remove" /\ call.args.force
      /\ call.before.config_kind # "absent" /\ call.before.backups = {}
      /\ call.failed = "none" /\ ~call.warned )
    => LET old == Get(BeforeSettings, "hooks", EmptyDict)
           new == HooksOf(settings_kind, settings_data)
       IN  /\ last_cmd = [name |-> "remove", exit |-> 0]
           /\ config_kind = "absent"
           /\ backups = {call.at}
           /\ \A t \in DOMAIN new : \A e \in Range(new[t]) : ~IsSlackEntry(e)
           /\ \A t \in DOMAIN old : Unrelated(Get(new, t, <<>>)) = Unrelated(old[t])
           /\ settings_kind = call.before.settings_kind
           /\ settings_kind = "json" => OtherKeysSame(BeforeSettings, settings_data)

\* C17: when `remove` has deleted the config file, the backup it wrote
\* exists; when its backup step fails it exits 1 with the config file still
\* there and settings.json as it was.
C17_BackupBeforeDelete ==
    call.op = "remove" =>
        /\ (call.before.config_kind # "absent" /\ config_kind = "absent") => call.at \in backups
        /\ call.failed = "backup" =>
              /\ last_cmd = [name |-> "remove", exit |-> 1]
              /\ Files = call.before
              /\ config_kind # "absent"
\* a forced remove whose backup failed, over a settings.json with slack hooks in it
C17_Witness ==
    /\ call.op = "remove" /\ call.args.force /\ call.failed = "backup"
    /\ settings_data = FilenameSettings

\* C18: `setup` without a webhook URL argument, or with one that is not a
\* valid webhook URL, exits 1 and leaves the config file, settings.json and
\* the backups as they were.
C18_SetupInvalidWritesNothing ==
    (call.op = "setup" /\ (call.args = <<>> \/ ~is_valid_webhook_url(call.args[1].url))) =>
        /\ last_cmd = [name |-> "setup", exit |-> 1]
        /\ Files = call.before
\* setup http://... over an existing config
C18_Witness ==
    /\ call.op = "setup" /\ call.args = <<UrlWord(HttpUrl)>>
    /\ call.before.config_kind = "json" /\ last_cmd.exit = 1

\* the keys of a config other than the two that start and stop manage
SameExcept(before, after, keys) ==
    /\ DOMAIN after \ keys = DOMAIN before \ keys
    /\ \A k \in DOMAIN before \ keys : after[k] = before[k]
HadWebhook ==
    /\ call.before.config_kind = "json"
    /\ Has(call.before.config_data, "webhook_url")
    /\ call.before.config_data["webhook_url"] # EmptyUrl

\* C19: on an existing config with a webhook_url (and a writable file),
\* `stop` sets active to false, removes thread_ts and leaves the other keys;
\* `start` sets active to true, sets thread_ts only when the argument is
\* given and leaves the other keys; on a missing config both exit 1 and
\* write no file.
C19_StartStopFrame ==
    /\ (call.op = "stop" /\ HadWebhook /\ call.failed # "save_config") =>
          /\ last_cmd = [name |-> "stop", exit |-> 0]
          /\ config_kind = "json"
          /\ Has(config_data, "active") /\ config_data["active"] = FALSE
          /\ ~Has(config_data, "thread_ts")
          /\ SameExcept(call.before.config_data, config_data, {"active", "thread_ts"})
    /\ (call.op = "start" /\ HadWebhook /\ call.failed # "save_config") =>
          /\ last_cmd = [name |-> "start", exit |-> 0]
          /\ config_kind = "json"
          /\ Has(config_data, "active") /\ config_data["active"] = TRUE
          /\ IF Has(call.args, "thread_ts")
             THEN Has(config_data, "thread_ts") /\ config_data["thread_ts"] = call.args["thread_ts"]
             ELSE SameExcept(call.before.config_data, config_data, {"active"})
          /\ SameExcept(call.before.config_data, config_data, {"active", "thread_ts"})
    /\ (call.op \in {"start", "stop"} /\ call.before.config_kind = "absent") =>
          /\ last_cmd.exit = 1
          /\ Files = call.before
    /\ call.op \in {"start", "stop"} =>
          /\ settings_kind = call.before.settings_kind
          /\ settings_data = call.before.settings_data
          /\ backups = call.before.backups
\* stop has succeeded on a config that had a thread_ts and other keys
C19_Witness ==
    /\ call.op = "stop" /\ call.failed = "none"
    /\ call.before.config_data = ActiveConfig

\* C20: is_valid_webhook_url returns true for every string that fully matches
\* the services or the workflows URL shape, and false for every string that
\* differs from both in protocol, domain, path shape or casing of the team/bot
\* prefix, or that carries a query string or a fragment.
ServicesPath(url) ==
    /\ url.kind = "services" /\ Len(url.segs) = 3
    /\ Prefixed("T", url.segs[1]) /\ Prefixed("B", url.segs[2]) /\ AlnumPlus(url.segs[3])
WorkflowsPath(url) ==
    /\ url.kind = "workflows" /\ Len(url.segs) = 4
    /\ Prefixed("T", url.segs[1]) /\ Prefixed("A", url.segs[2])
    /\ AlnumPlus(url.segs[3]) /\ AlnumPlus(url.segs[4])
\* the whole string is one of the two shapes, nothing before and nothing after
FullyMatches(url) ==
    /\ url.scheme = "https" /\ url.host = "hooks.slack.com"
    /\ ServicesPath(url) \/ WorkflowsPath(url)
    /\ url.tail = ""
\* what follows the last segment belongs to the path unless it is a query
\* string or a fragment
DiffersInPath(url) ==
    \/ ~(ServicesPath(url) \/ WorkflowsPath(url))
    \/ url.tail \notin {""} \cup QueryTails \cup FragmentTails
Differs(url) ==
    \/ url.scheme # "https"
    \/ url.host # "hooks.slack.com"
    \/ DiffersInPath(url)
    \/ url.tail \in QueryTails
    \/ url.tail \in FragmentTails
C20_ValidIffFullMatch ==
    call.op = "is_valid_webhook_url" =>
        /\ FullyMatches(call.args) => call.returned = TRUE
        /\ Differs(call.args) => call.returned = FALSE

\* C21: for every URL that is_valid_webhook_url accepts, of either shape,
\* mask_webhook_url returns that URL with its token segment replaced by "...";
\* for every rejected input it returns the sentinel "Invalid URL"; the
\* returned string never holds the token.
TokenOf(url) == url.segs[Len(url.segs)]
WithTokenMasked(url) == [url EXCEPT !.segs[Len(url.segs)] = Dots]
C21_MaskHidesToken ==
    call.op = "mask_webhook_url" =>
        /\ is_valid_webhook_url(call.args) =>
               /\ call.returned = UrlWord(WithTokenMasked(call.args))
               /\ ~InList(TokenOf(call.args), call.returned.url.segs)
        /\ ~is_valid_webhook_url(call.args) => call.returned = TextWord("Invalid URL")

\* C22: the lock taken by update_aggregation_state covers only the write, not
\* the read-modify-write: a call holds the lock only between opening the file
\* and the end of its dump, never while it loads, and the file holds what the
\* last call to dump had in memory, whatever was written since that call
\* loaded.  So two overlapping calls for one session can end with one call's
\* tool record and notification_count increment lost (C22_Witness).
C22_LockCoversOnlyWrite ==
    /\ \A sid \in Sessions, i \in Workers :
          upd.lock[sid] = i => upd.w[i].sid = sid /\ upd.w[i].pc \in {"dump", "unlock"}
    /\ \A sid \in Sessions, i \in Workers :
          (/\ upd.last[sid] = i /\ upd.w[i].sid = sid /\ upd.w[i].pc \in {"unlock", "done"}
           /\ sid \notin upd.unreadable
           /\ \A j \in Workers \ {i} : ~(upd.w[j].sid = sid /\ upd.w[j].pc \in {"flock", "dump"}))
          => agg_state[sid] = upd.w[i].state
C22_Witness ==
    \E sid \in Sessions :
        /\ \A i \in Workers : upd.w[i].pc = "done" /\ upd.w[i].sid = sid
        /\ upd.dumps[sid] = 2
        /\ sid \notin upd.unreadable
        /\ agg_state[sid].notification_count = 1
        /\ Len(agg_state[sid].tools) = 1

\* C23: an aggregated message lists, for the last 5 tool records of the
\* session's state file, one description per distinct tool name, the latest
\* one, and the tool count it shows is the number of tool records the file
\* holds, each recorded event counted once.
RecentRecords(sid) == LastN(agg_state[sid].tools, RecentTools)
LatestDescription(records, tool_name) ==
    LET last == CHOOSE k \in 1..Len(records) :
                    /\ records[k].tool_name = tool_name
                    /\ \A m \in (k + 1)..Len(records) : records[m].tool_name # tool_name
    IN  records[last].description
C23_AggregatedListsAndCounts ==
    call.op = "aggregated" =>
        LET sid == call.args.session_id
            records == RecentRecords(sid)
            names == { records[k].tool_name : k \in 1..Len(records) }
            listed == call.returned.activity_list
        IN  /\ { listed[k] : k \in 1..Len(listed) } = { LatestDescription(records, n) : n \in names }
            /\ Len(listed) = Cardinality(names)
            /\ call.returned.tools_used = Len(agg_state[sid].tools)

\* C24: when every send attempt times out (10 seconds each, up to 3 attempts,
\* plus the backoff sleeps), a hook reports failure after at most about 13
\* seconds of blocking in total.
RECURSIVE SumSeq(_)
SumSeq(s) == IF s = <<>> THEN 0 ELSE s[1] + SumSeq(Tail(s))
Timeouts == Len(SelectSeq(trace, LAMBDA step : step = "timeout"))
Blocked == UrlopenTimeout * Timeouts + SumSeq(sleeps)
EveryAttemptTimedOut == result = "failure" /\ posts > 0 /\ Timeouts = posts
C24_WorstCaseThirteenSeconds == EveryAttemptTimedOut => Blocked <= 13
\* C24 as the code has it: three timeouts of 10 seconds and sleeps of 1 and 2
\* seconds, 33 seconds
C24_WorstCaseThirtyThreeSeconds ==
    /\ EveryAttemptTimedOut => posts = 3 /\ Blocked = 33
    /\ result = "failure" /\ posts > 0 => Blocked <= 33
C24_Witness == EveryAttemptTimedOut /\ pc = "done" /\ exit_code = 1

\* C25: the transcript summary counts the tool invocations of every
\* well-formed line: a malformed line is skipped alone and never makes a later
\* well-formed line drop out, and the activity level follows the count
\* (0 empty, 1 brief, 2-4 some activity, 5 or more significant).
RECURSIVE ToolsOfWellFormed(_)
ToolsOfWellFormed(lines) ==
    IF lines = <<>> THEN 0
    ELSE (IF Head(lines).json = "object" /\ Head(lines).type = "assistant"
          THEN Len(Head(lines).tools) ELSE 0) + ToolsOfWellFormed(Tail(lines))
LevelOf(count) ==
    CASE count = 0 -> "Empty session - no activity recorded"
      [] count = 1 -> "Brief session"
      [] count \in 2..4 -> "Session completed with activity"
      [] OTHER -> "Active session with significant work"
C25_EveryWellFormedLineCounted ==
    call.op = "parse_transcript_for_summary" =>
        /\ call.returned.tools_used = ToolsOfWellFormed(call.args)
        /\ call.returned.activity = LevelOf(call.returned.tools_used)

\* C26: for every content longer than max_length, truncate_message_content
\* returns a string of length at most max_length that ends in "...": the
\* content cut at max_length - 3, then backed up to the nearest preceding
\* space when that space is no earlier than 80% of max_length; content no
\* longer than max_length is returned unchanged.
EndsInDots(s) == Len(s) >= 3 /\ SubSeq(s, Len(s) - 2, Len(s)) = Dots
CutAsStated(content, max_length) ==
    LET cut == SubSeq(content, 1, max_length - 3)
        at == { i \in 1..Len(cut) : cut[i] = " " /\ 5 * (i - 1) >= 4 * max_length }
    IN  IF at = {} THEN cut
        ELSE SubSeq(cut, 1, (CHOOSE i \in at : \A j \in at : j <= i) - 1)
C26_TruncatesWithinLimit ==
    call.op = "truncate_message_content" =>
        LET content == call.args.content
            max_length == call.args.max_length
        IN  IF Len(content) > max_length
            THEN /\ Len(call.returned) <= max_length
                 /\ EndsInDots(call.returned)
                 /\ max_length >= 3 => call.returned = CutAsStated(content, max_length) \o Dots
            ELSE call.returned = content

\* C27: for every old config, migrate_configuration to target "1.0" returns a
\* dict with version "1.0" in which slack_webhook and enabled have been
\* renamed to webhook_url and active (neither old key remains), and
\* migrate_configuration to any other target version raises ConfigurationError.
RenamedTo(old_config, new_config, old_key, new_key) ==
    /\ ~Has(new_config, old_key)
    /\ Has(old_config, old_key) =>
          /\ Has(new_config, new_key)
          /\ ~Has(old_config, new_key) => new_config[new_key] = old_config[old_key]
MigratedToCurrent(old_config, new_config) ==
    /\ Get(new_config, "version", "") = "1.0"
    /\ RenamedTo(old_config, new_config, "slack_webhook", "webhook_url")
    /\ RenamedTo(old_config, new_config, "enabled", "active")
C27_MigrateRenamesOrRaises ==
    call.op = "migrate_configuration" =>
        IF call.args.target_version = "1.0"
        THEN call.failed = "none" /\ MigratedToCurrent(call.args.old_config, call.returned)
        ELSE call.failed = "ConfigurationError"
\* C27 as the code has it: a config whose version is the target already comes
\* back as it is, whatever the target and whatever keys it holds; a field the
\* config holds under its new name keeps that value
KeptOver(old_config, new_config, old_key, new_key) ==
    Has(old_config, old_key) /\ Has(old_config, new_key) => new_config[new_key] = old_config[new_key]
C27_MigrateUnlessCurrent ==
    call.op = "migrate_configuration" =>
        IF Get(call.args.old_config, "version", "") = call.args.target_version
        THEN call.failed = "none" /\ call.returned = call.args.old_config
        ELSE IF call.args.target_version = "1.0"
        THEN /\ call.failed = "none"
             /\ MigratedToCurrent(call.args.old_config, call.returned)
             /\ KeptOver(call.args.old_config, call.returned, "slack_webhook", "webhook_url")
             /\ KeptOver(call.args.old_config, call.returned, "enabled", "active")
        ELSE call.failed = "ConfigurationError"
C27_Witness ==
    /\ call.op = "migrate_configuration" /\ call.failed = "none"
    /\ call.args.target_version = "1.0"
    /\ DOMAIN call.args.old_config = {"slack_webhook", "enabled", "notifications"}
    /\ DOMAIN call.returned = {"webhook_url", "active", "notification_settings", "version"}

\* C28: after any sequence of setup, start, stop and remove, whenever the
\* config file exists with active equal to false it holds no thread_ts key:
\* thread_ts is there only while active is true.
C28_ThreadOnlyWhileActive ==
    (config_kind = "json" /\ Has(config_data, "active") /\ config_data["active"] = FALSE)
        => ~Has(config_data, "thread_ts")
\* a config that held a thread_ts has been stopped
C28_Witness ==
    /\ call.op = "stop" /\ call.failed = "none"
    /\ Has(call.before.config_data, "thread_ts")
    /\ config_kind = "json" /\ config_data["active"] = FALSE

\* C29: setup saves the config file before it registers the hooks and does
\* not roll back: when registering the hooks in settings.json fails, setup
\* exits 1, settings.json and the backups are as they were, and the config
\* file it wrote is on disk, holding the given webhook_url, active true and
\* version "1.0" over the keys the file had before.
C29_SetupKeepsConfigWhenRegisterFails ==
    (call.op = "setup" /\ call.failed \in {"load_settings", "save_settings"}) =>
        /\ last_cmd = [name |-> "setup", exit |-> 1]
        /\ config_kind = "json"
        /\ Has(config_data, "webhook_url") /\ config_data["webhook_url"] = call.args[1].url
        /\ Has(config_data, "active") /\ config_data["active"] = TRUE
        /\ Has(config_data, "version") /\ config_data["version"] = "1.0"
        /\ \A k \in DOMAIN call.before.config_data \ {"webhook_url", "default_channel",
                                                     "project_name", "version", "active"} :
              Has(config_data, k) /\ config_data[k] = call.before.config_data[k]
        /\ settings_kind = call.before.settings_kind
        /\ settings_data = call.before.settings_data
        /\ backups = call.before.backups
\* a setup on a project without a config whose settings.json could not be written
C29_Witness ==
    /\ call.op = "setup" /\ call.failed = "save_settings"
    /\ call.before.config_kind = "absent"
    /\ config_kind = "json" /\ last_cmd.exit = 1

\* C30: remove is not all-or-nothing. When deleting the config file fails
\* (and the hooks were unregistered without a warning) it exits 1 with no
\* *-slack.py entry left in settings.json, the backup it wrote on disk and
\* the config file as it was; when unregistering the hooks fails it only
\* warns, and a remove that then deletes the config file exits 0 with
\* settings.json as it was.
C30_RemoveNotAllOrNothing ==
    call.op = "remove" =>
        /\ (call.failed = "delete" /\ ~call.warned) =>
              LET new == HooksOf(settings_kind, settings_data)
              IN  /\ last_cmd = [name |-> "remove", exit |-> 1]
                  /\ \A t \in DOMAIN new : \A e \in Range(new[t]) : ~IsSlackEntry(e)
                  /\ backups = call.before.backups \cup {call.at}
                  /\ config_kind # "absent"
                  /\ config_kind = call.before.config_kind
                  /\ config_data = call.before.config_data
        /\ (call.warned /\ call.failed = "none") =>
              /\ last_cmd = [name |-> "remove", exit |-> 0]
              /\ config_kind = "absent"
              /\ call.at \in backups
              /\ settings_kind = call.before.settings_kind
              /\ settings_data = call.before.settings_data

====
